---- MODULE Spec2Model ----
(***************************************************************************)
(* Storage core of the database: the LRU replacer, the buffer pool manager *)
(* and the B+ tree index and its iterator built on top of them.            *)
(*                                                                         *)
(* Every public operation of the buffer pool runs under the pool latch, so *)
(* one call is one atomic action.  The disk manager is an external         *)
(* collaborator: it is modelled by its interface (ReadPage, WritePage,     *)
(* AllocatePage, DeallocatePage) as a map from page ids to page images.    *)
(* In the pool specifications a page image is one value of Data.  In the   *)
(* index specifications it is the node the page holds (header fields and   *)
(* the array of pairs); zeroed is the image of a page of zero bytes.       *)
(*                                                                         *)
(* The index is used by one thread.  A call of the index (Insert, Remove,  *)
(* GetValue, begin, ++) is one action: its body is evaluated statement by  *)
(* statement on the pool as one value, and the action leaves the pool and  *)
(* the tree object as the call left them.                                  *)
(***************************************************************************)
EXTENDS Integers, Sequences, FiniteSets, TLC

\* ---------------------------------------------------------------- bounds
PoolSize == 2   \* Spec: pool_size given to the BufferPoolManager constructor
MaxPages == 3   \* Spec: AllocatePage hands out page ids 0 .. MaxPages-1
MaxPin   == 2   \* callers stop fetching a resident page at this pin count
MaxData  == 1   \* page images are 0 .. MaxData
DataPoolSize == 1   \* SpecData: pool_size
DataMaxPages == 2   \* SpecData: page ids 0 .. DataMaxPages-1
LruFrames == 4      \* SpecLRU: frame ids 0 .. LruFrames-1
FillPoolSize == 4   \* SpecFill: pool_size of the larger pool
FillMaxPages == 5   \* SpecFill: page ids 0 .. FillMaxPages-1 of the larger pool
FillMaxPin == 1     \* SpecFill: pins callers take on one page of the larger pool
MaxTreePages == 24   \* index: AllocatePage hands out page ids 0 .. MaxTreePages-1
TreeKeys == 13       \* index: keys 1 .. TreeKeys
TreeValues == 2     \* index: values 1 .. TreeValues
MaxIterators == 1   \* index: live iterators at a time
TailOps == 1        \* index: calls that follow a workload's opening sequence
ShrinkOps == 2      \* SpecShrink: Remove calls that follow the opening sequence
RoundKeys == 6      \* SpecRound: keys of the longest opening sequence
IterOps == 2        \* SpecIter: iterators obtained after the opening sequence
ThreadCount == 2    \* SpecThreads, SpecLRUThreads: concurrent callers

\* ------------------------------------------------------------- constants
INVALID_PAGE_ID == -1

VARIABLES
  pool_size_,    \* number of frames
  pages_,        \* frame -> [page_id, pin_count, is_dirty, data]
  page_table_,   \* page id -> frame, a function on the resident page ids
  free_list_,    \* sequence of frames, back = last element
  usedFrames,    \* the replacer's candidates, front = first element
  disk,          \* DiskManager: allocated page id -> page image
  next_page_id,  \* DiskManager: the id the next AllocatePage returns
  flushed,       \* history: pairs <<page id, image at its last FlushPage>>, dropped
                 \* when a caller rewrites the page
  fifo,          \* history (replacer alone): the candidates in the order of their
                 \* latest effective Unpin, oldest first
  lru_last,      \* replacer alone: the last call and what it returned
  zeroed,        \* the image of a page after ResetMemory, as its users read it: a
                 \* plain pool's callers see the value 0, the index sees a node
                 \* whose fields are all zero
  root_page_id_,       \* BPlusTree::root_page_id_
  leaf_max_size_,      \* BPlusTree::leaf_max_size_
  internal_max_size_,  \* BPlusTree::internal_max_size_
  stored,        \* history: key -> value of the last successful Insert of a key that
                 \* no later Remove named
  iterators,     \* the live IndexIterator objects
  todo,          \* workload: the keys its opening Insert calls still have to insert
  budget,        \* workload: the number of calls that may follow the opening sequence
  threads,       \* concurrent callers: thread -> the call it is in and its position
  latch_,        \* BufferPoolManager::latch_: the set of threads that hold it
  latch          \* LRUReplacer::latch: the set of threads that hold it

poolVars == <<pool_size_, pages_, page_table_, free_list_, usedFrames, disk, next_page_id>>
lruVars  == <<fifo, lru_last>>
treeVars == <<root_page_id_, leaf_max_size_, internal_max_size_, stored, iterators, todo,
              budget>>
threadVars == <<threads, latch_, latch>>
vars     == <<pool_size_, pages_, page_table_, free_list_, usedFrames, disk, next_page_id,
              flushed, fifo, lru_last, zeroed, root_page_id_, leaf_max_size_,
              internal_max_size_, stored, iterators, todo, budget, threads, latch_,
              latch>>

Frames == 0 .. (pool_size_ - 1)

\* ---------------------------------------------------------------- helpers
Range(s) == {s[i] : i \in 1 .. Len(s)}

Back(s) == s[Len(s)]

PopBack(s) == SubSeq(s, 1, Len(s) - 1)

\* std::unordered_map::erase(key)
Erase(pt, p) == [q \in (DOMAIN pt) \ {p} |-> pt[q]]

\* std::unordered_map::operator[](key) = value
Assign(pt, p, f) == [q \in (DOMAIN pt) \cup {p} |-> IF q = p THEN f ELSE pt[q]]

\* Page::Page / the frame metadata after construction or after a reset
EmptyPage == [page_id |-> INVALID_PAGE_ID, pin_count |-> 0, is_dirty |-> FALSE, data |-> zeroed]

\* ------------------------------------------------------------ LRUReplacer
\* Victim: fails on an empty list, else takes the back element, the least
\* recently unpinned one.
ReplacerHasVictim(uf) == uf # <<>>

ReplacerVictim(uf) == Back(uf)

ReplacerAfterVictim(uf) == PopBack(uf)

\* Mutant of Pin: the frame is looked up but never erased.
ReplacerPin_NoErase(uf, frame_id) == uf

\* Pin: erase the frame if it is a candidate, otherwise nothing.
ReplacerPin(uf, frame_id) == SelectSeq(uf, LAMBDA x : x # frame_id)

\* Mutant of Unpin: push_back instead of push_front.
ReplacerUnpin_PushBack(uf, frame_id) ==
  IF frame_id \in Range(uf) THEN uf ELSE Append(uf, frame_id)

\* Unpin that moves a frame which is already a candidate to the front.
ReplacerUnpin_MoveToFront(uf, frame_id) == <<frame_id>> \o SelectSeq(uf, LAMBDA x : x # frame_id)

\* Unpin: nothing if already a candidate, otherwise push_front.
ReplacerUnpin(uf, frame_id) ==
  IF frame_id \in Range(uf) THEN uf ELSE <<frame_id>> \o uf

ReplacerSize(uf) == Len(uf)

\* ------------------------------------------------------------ disk manager
\* The database file holds an image for every allocated page id; a write to an
\* id outside the file stores nothing and a read of one yields a zeroed buffer.
DiskWrite(d, p, image) == IF p \in DOMAIN d THEN [d EXCEPT ![p] = image] ELSE d

DiskRead(d, p) == IF p \in DOMAIN d THEN d[p] ELSE zeroed

\* AllocatePage: "monotonically increasing fresh ids"; the file grows by a zeroed page.
DiskAllocate(d, p) == [q \in (DOMAIN d) \cup {p} |-> IF q = p THEN zeroed ELSE d[q]]

IoCall(call, p, image) == [call |-> call, page |-> p, image |-> image]

\* ------------------------------------------------------------- pool state
\* The pool as one value.  An operation maps the pool it finds to the pool it
\* leaves, together with what the call returned (ok: the bool result; frame:
\* {f} for a returned Page pointer &pages_[f], {} for nullptr; page_id: the id
\* NewPage stores through its out-parameter) and io, the disk manager calls it
\* issued, in order.
Pool ==
  [pages |-> pages_, page_table |-> page_table_, free_list |-> free_list_,
   usedFrames |-> usedFrames, disk |-> disk, next_page_id |-> next_page_id,
   ok |-> TRUE, frame |-> {}, page_id |-> INVALID_PAGE_ID, io |-> <<>>]

\* The step that leaves the pool as the call result r describes.
Becomes(r) ==
  /\ pages_' = r.pages
  /\ page_table_' = r.page_table
  /\ free_list_' = r.free_list
  /\ usedFrames' = r.usedFrames
  /\ disk' = r.disk
  /\ next_page_id' = r.next_page_id
  /\ UNCHANGED <<pool_size_, zeroed, treeVars, threadVars>>

\* What a call leaves of the pool, without its return values and disk calls.
PoolOf(r) == <<r.pages, r.page_table, r.free_list, r.usedFrames, r.disk, r.next_page_id>>

\* ------------------------------------------------------------------- Init
\* A thread between two calls.  op: the member function the thread is in; pc: its
\* position in it; page_id, is_dirty, frame_id: the call's arguments; fid: the
\* loop variable of FlushAllPagesImpl; accessed: the thread's last step read or
\* wrote members of the object (frame metadata, page table, candidate list).
Idle ==
  [op |-> "none", pc |-> "idle", page_id |-> INVALID_PAGE_ID, is_dirty |-> FALSE,
   frame_id |-> 0, fid |-> 0, accessed |-> FALSE]

\* BufferPoolManager::BufferPoolManager(pool_size, ...)
Construct(pool_size) ==
  /\ zeroed = 0
  /\ root_page_id_ = INVALID_PAGE_ID
  /\ leaf_max_size_ = 0
  /\ internal_max_size_ = 0
  /\ stored = <<>>
  /\ iterators = <<>>
  /\ todo = <<>>
  /\ budget = 0
  /\ pool_size_ = pool_size
  /\ pages_ = [f \in 0 .. (pool_size - 1) |-> EmptyPage]
  /\ page_table_ = <<>>
  /\ free_list_ = [i \in 1 .. pool_size |-> i - 1]
  /\ usedFrames = <<>>
  /\ disk = <<>>
  /\ next_page_id = 0
  /\ flushed = {}
  /\ fifo = <<>>
  /\ lru_last = [op |-> "LRUReplacer", frame_id |-> 0, ok |-> TRUE, victim |-> {}]
  /\ threads = [t \in 1 .. ThreadCount |-> Idle]
  /\ latch_ = {}
  /\ latch = {}

Init == Construct(PoolSize)

\* ------------------------------------------------- frame selection (miss)
\* FetchPageImpl / NewPageImpl when the page is not resident: "find a replacement
\* page (R) from either the free list or the replacer".
\* Mutant: only the free list is consulted.
HasReplacement_FreeListOnly(s) == s.free_list # <<>>

HasReplacement(s) == s.free_list # <<>> \/ ReplacerHasVictim(s.usedFrames)

\* The frame taken: the back of the free list when it is not empty, else the
\* replacer's victim.
ReplacementFrame(s) ==
  IF s.free_list # <<>> THEN Back(s.free_list) ELSE ReplacerVictim(s.usedFrames)

\* Mutant: the dirty victim is reused without being written back.
WriteBack_Skipped(s, frame) == s

\* "If R is dirty, write it back to the disk": on the victim branch only.
WriteBack(s, frame) ==
  IF s.pages[frame].is_dirty
  THEN [s EXCEPT !.disk = DiskWrite(@, s.pages[frame].page_id, s.pages[frame].data),
                 !.io = Append(@, IoCall("WritePage", s.pages[frame].page_id,
                                         s.pages[frame].data))]
  ELSE s

\* The pool once the replacement frame has left the free list or the replacer.
TakeReplacement(s) ==
  IF s.free_list = <<>>
  THEN WriteBack([s EXCEPT !.usedFrames = ReplacerAfterVictim(@)],
                 ReplacerVictim(s.usedFrames))
  ELSE [s EXCEPT !.free_list = PopBack(@)]

\* "Delete R from the page table and insert P."
TableAfterInstall(pt, old, page_id, frame) ==
  Assign(IF old \in DOMAIN pt THEN Erase(pt, old) ELSE pt, page_id, frame)

\* ------------------------------------------------------------ FetchPageImpl
FetchPageImpl(s, page_id) ==
  IF page_id \in DOMAIN s.page_table
  THEN LET frameId == s.page_table[page_id] IN
       [s EXCEPT !.usedFrames = ReplacerPin(@, frameId),
                 !.pages[frameId].pin_count = @ + 1,
                 !.ok = TRUE, !.frame = {frameId}]
  ELSE IF ~HasReplacement(s)
  THEN [s EXCEPT !.ok = FALSE, !.frame = {}]
  ELSE LET frame == ReplacementFrame(s)
           s1 == TakeReplacement(s)
           image == DiskRead(s1.disk, page_id)
       IN
       [s1 EXCEPT !.page_table = TableAfterInstall(@, s.pages[frame].page_id, page_id, frame),
                  !.pages[frame] = [page_id |-> page_id, pin_count |-> 1,
                                    is_dirty |-> FALSE, data |-> image],
                  !.usedFrames = ReplacerPin(@, frame),
                  !.io = Append(@, IoCall("ReadPage", page_id, image)),
                  !.ok = TRUE, !.frame = {frame}]

\* ------------------------------------------------------------ UnpinPageImpl
\* Mutant of "page.is_dirty_ |= is_dirty": plain assignment.
DirtyAfterUnpin_Assigned(was_dirty, is_dirty) == is_dirty

\* "page.is_dirty_ |= is_dirty"
DirtyAfterUnpin(was_dirty, is_dirty) == was_dirty \/ is_dirty

\* Mutant: the frame is handed to the replacer on every unpin, whatever its pin count.
UnpinPageImpl_AlwaysCandidate(s, page_id, is_dirty) ==
  IF page_id \notin DOMAIN s.page_table
  THEN [s EXCEPT !.ok = FALSE]
  ELSE LET f == s.page_table[page_id]
           page == s.pages[f]
           s1 == IF page.pin_count > 0
                 THEN [s EXCEPT !.pages[f].pin_count = @ - 1,
                                !.usedFrames = ReplacerUnpin(@, f)]
                 ELSE s
       IN [s1 EXCEPT !.pages[f].is_dirty = DirtyAfterUnpin(@, is_dirty), !.ok = TRUE]

\* Mutant: no page-table lookup guard; an unknown id is taken to live in the frame
\* a default-inserted table entry names (frame 0).
UnpinPageImpl_DefaultFrame(s, page_id, is_dirty) ==
  LET f == IF page_id \in DOMAIN s.page_table THEN s.page_table[page_id] ELSE 0
      page == s.pages[f]
      s1 == IF page.pin_count > 0
            THEN IF page.pin_count - 1 = 0
                 THEN [s EXCEPT !.pages[f].pin_count = @ - 1,
                                !.usedFrames = ReplacerUnpin(@, f)]
                 ELSE [s EXCEPT !.pages[f].pin_count = @ - 1]
            ELSE s
  IN [s1 EXCEPT !.pages[f].is_dirty = DirtyAfterUnpin(@, is_dirty), !.ok = TRUE]

UnpinPageImpl(s, page_id, is_dirty) ==
  IF page_id \notin DOMAIN s.page_table
  THEN [s EXCEPT !.ok = FALSE]
  ELSE LET f == s.page_table[page_id]
           page == s.pages[f]
           s1 == IF page.pin_count > 0
                 THEN IF page.pin_count - 1 = 0
                      THEN [s EXCEPT !.pages[f].pin_count = @ - 1,
                                     !.usedFrames = ReplacerUnpin(@, f)]
                      ELSE [s EXCEPT !.pages[f].pin_count = @ - 1]
                 ELSE s
       IN [s1 EXCEPT !.pages[f].is_dirty = DirtyAfterUnpin(@, is_dirty), !.ok = TRUE]

\* ------------------------------------------------------------ FlushPageImpl
\* Mutant: the dirty bit is cleared but WritePage is not called.
FlushPageImpl_NoWrite(s, page_id) ==
  IF page_id \notin DOMAIN s.page_table \/ page_id = INVALID_PAGE_ID
  THEN [s EXCEPT !.ok = FALSE]
  ELSE [s EXCEPT !.pages[s.page_table[page_id]].is_dirty = FALSE, !.ok = TRUE]

\* Mutant: WritePage is called but the dirty bit is left as it was.
FlushPageImpl_KeepsDirty(s, page_id) ==
  IF page_id \notin DOMAIN s.page_table \/ page_id = INVALID_PAGE_ID
  THEN [s EXCEPT !.ok = FALSE]
  ELSE LET frameId == s.page_table[page_id] IN
       [s EXCEPT !.disk = DiskWrite(@, page_id, s.pages[frameId].data),
                 !.io = Append(@, IoCall("WritePage", page_id, s.pages[frameId].data)),
                 !.ok = TRUE]

FlushPageImpl(s, page_id) ==
  IF page_id \notin DOMAIN s.page_table \/ page_id = INVALID_PAGE_ID
  THEN [s EXCEPT !.ok = FALSE]
  ELSE LET frameId == s.page_table[page_id] IN
       [s EXCEPT !.disk = DiskWrite(@, page_id, s.pages[frameId].data),
                 !.io = Append(@, IoCall("WritePage", page_id, s.pages[frameId].data)),
                 !.pages[frameId].is_dirty = FALSE,
                 !.ok = TRUE]

\* -------------------------------------------------------------- NewPageImpl
\* Mutant: AllocatePage is called before a frame is looked for.
NewPageImpl_AllocatesFirst(s) ==
  IF ~HasReplacement(s)
  THEN [s EXCEPT !.next_page_id = @ + 1,
                 !.disk = DiskAllocate(@, s.next_page_id),
                 !.io = Append(@, IoCall("AllocatePage", s.next_page_id, 0)),
                 !.ok = FALSE, !.frame = {}, !.page_id = INVALID_PAGE_ID]
  ELSE LET frame == ReplacementFrame(s)
           s1 == TakeReplacement(s)
           newPID == s1.next_page_id
       IN
       [s1 EXCEPT !.next_page_id = @ + 1,
                  !.disk = DiskAllocate(@, newPID),
                  !.io = Append(@, IoCall("AllocatePage", newPID, 0)),
                  !.page_table = TableAfterInstall(@, s.pages[frame].page_id, newPID, frame),
                  !.pages[frame] = [page_id |-> newPID, pin_count |-> 1,
                                    is_dirty |-> FALSE, data |-> zeroed],
                  !.usedFrames = ReplacerPin(@, frame),
                  !.ok = TRUE, !.frame = {frame}, !.page_id = newPID]

NewPageImpl(s) ==
  IF ~HasReplacement(s)
  THEN [s EXCEPT !.ok = FALSE, !.frame = {}, !.page_id = INVALID_PAGE_ID]
  ELSE LET frame == ReplacementFrame(s)
           s1 == TakeReplacement(s)
           newPID == s1.next_page_id
       IN
       [s1 EXCEPT !.next_page_id = @ + 1,
                  !.disk = DiskAllocate(@, newPID),
                  !.io = Append(@, IoCall("AllocatePage", newPID, 0)),
                  !.page_table = TableAfterInstall(@, s.pages[frame].page_id, newPID, frame),
                  !.pages[frame] = [page_id |-> newPID, pin_count |-> 1,
                                    is_dirty |-> FALSE, data |-> zeroed],
                  !.usedFrames = ReplacerPin(@, frame),
                  !.ok = TRUE, !.frame = {frame}, !.page_id = newPID]

\* ----------------------------------------------------------- DeletePageImpl
\* Mutant: the pin count is not looked at.
DeletePageImpl_NoPinCheck(s, page_id) ==
  IF page_id = INVALID_PAGE_ID \/ page_id \notin DOMAIN s.page_table
  THEN [s EXCEPT !.ok = TRUE]
  ELSE LET frameId == s.page_table[page_id]
           s1 == WriteBack([s EXCEPT !.page_table = Erase(@, page_id)], frameId)
       IN [s1 EXCEPT !.io = Append(@, IoCall("DeallocatePage", page_id, 0)),
                     !.usedFrames = ReplacerPin(@, frameId),
                     !.pages[frameId] = EmptyPage,
                     !.free_list = Append(@, frameId),
                     !.ok = TRUE]

DeletePageImpl(s, page_id) ==
  IF page_id = INVALID_PAGE_ID \/ page_id \notin DOMAIN s.page_table
  THEN [s EXCEPT !.ok = TRUE]
  ELSE LET frameId == s.page_table[page_id]
           page == s.pages[frameId]
       IN
       IF page.pin_count > 0
       THEN [s EXCEPT !.ok = FALSE]
       ELSE LET s1 == WriteBack([s EXCEPT !.page_table = Erase(@, page_id)], frameId) IN
            [s1 EXCEPT !.io = Append(@, IoCall("DeallocatePage", page_id, 0)),
                       !.usedFrames = ReplacerPin(@, frameId),
                       !.pages[frameId] = EmptyPage,
                       !.free_list = Append(@, frameId),
                       !.ok = TRUE]

\* -------------------------------------------------------- FlushAllPagesImpl
\* for fid in 0 .. pool_size_-1: FlushPageImpl(pages_[fid].GetPageId())
RECURSIVE FlushAllPagesFrom(_, _, _)
FlushAllPagesFrom(s, fid, pool_size) ==
  IF fid >= pool_size THEN s
  ELSE FlushAllPagesFrom(FlushPageImpl(s, s.pages[fid].page_id), fid + 1, pool_size)

FlushAllPagesImpl(s, pool_size) == [FlushAllPagesFrom(s, 0, pool_size) EXCEPT !.ok = TRUE]

\* ---------------------------------------------------------------- callers
\* A caller's FetchPage; max_pin cuts off the pins callers take on one page.
FetchPage(page_id, max_pin) ==
  /\ page_id \in DOMAIN page_table_ => pages_[page_table_[page_id]].pin_count < max_pin
  /\ Becomes(FetchPageImpl(Pool, page_id))
  /\ UNCHANGED <<flushed, lruVars>>

UnpinPage(page_id, is_dirty) ==
  /\ Becomes(UnpinPageImpl(Pool, page_id, is_dirty))
  /\ UNCHANGED <<flushed, lruVars>>

\* The bytes of a pinned page as its holder rewrites them through the Page pointer.
WriteData(s, page_id, image) == [s EXCEPT !.pages[s.page_table[page_id]].data = image]

\* A caller that holds a pin on page_id rewrites the page's bytes and releases
\* its pin with is_dirty = true (the pin protocol of the pool's callers).
WriteAndUnpin(page_id, image) ==
  /\ page_id \in DOMAIN page_table_
  /\ pages_[page_table_[page_id]].pin_count > 0
  /\ pages_[page_table_[page_id]].data # image
  /\ Becomes(UnpinPageImpl(WriteData(Pool, page_id, image), page_id, TRUE))
  /\ flushed' = {e \in flushed : e[1] # page_id}
  /\ UNCHANGED lruVars

\* track: whether the history of flushed images is kept in this specification.
FlushPage(page_id, track) ==
  /\ Becomes(FlushPageImpl(Pool, page_id))
  /\ flushed' = IF track /\ FlushPageImpl(Pool, page_id).ok
                 THEN {e \in flushed : e[1] # page_id}
                        \cup {<<page_id, pages_[page_table_[page_id]].data>>}
                 ELSE flushed
  /\ UNCHANGED lruVars

\* A caller's NewPage; max_pages bounds the ids AllocatePage hands out.
NewPage(max_pages) ==
  /\ next_page_id < max_pages
  /\ Becomes(NewPageImpl(Pool))
  /\ UNCHANGED <<flushed, lruVars>>

DeletePage(page_id) ==
  /\ Becomes(DeletePageImpl(Pool, page_id))
  /\ UNCHANGED <<flushed, lruVars>>

FlushAllPages ==
  /\ Becomes(FlushAllPagesImpl(Pool, pool_size_))
  /\ UNCHANGED <<flushed, lruVars>>

\* ------------------------------------------------------------------- Next
\* Page ids a caller passes: the ids AllocatePage has handed out so far, and the
\* INVALID_PAGE_ID sentinel, which the interface accepts like any other id.
Allocated == 0 .. (next_page_id - 1)

Callable == Allocated \cup {INVALID_PAGE_ID}

Images == 0 .. MaxData

\* Spec: the pool's bookkeeping under every call sequence; no caller rewrites a
\* page, so every image stays zeroed.
Next ==
  \/ \E p \in Callable : FetchPage(p, MaxPin)
  \/ \E p \in Callable, d \in BOOLEAN : UnpinPage(p, d)
  \/ \E p \in Callable : FlushPage(p, FALSE)
  \/ NewPage(MaxPages)
  \/ \E p \in Callable : DeletePage(p)
  \/ FlushAllPages

Spec == Init /\ [][Next]_vars

\* SpecData: the same calls on a smaller pool whose callers also rewrite pages.
InitData == Construct(DataPoolSize)

NextData ==
  \/ \E p \in Callable : FetchPage(p, MaxPin)
  \/ \E p \in Callable, d \in BOOLEAN : UnpinPage(p, d)
  \/ \E p \in Allocated, v \in Images : WriteAndUnpin(p, v)
  \/ \E p \in Callable : FlushPage(p, TRUE)
  \/ NewPage(DataMaxPages)
  \/ \E p \in Callable : DeletePage(p)
  \/ FlushAllPages

SpecData == InitData /\ [][NextData]_vars

\* SpecFill: pools of two sizes.  The pool of PoolSize frames is driven as in Spec;
\* the pool of FillPoolSize frames is filled and drained by NewPage, FetchPage and
\* UnpinPage calls on allocated pages.
InitFill == \E n \in {PoolSize, FillPoolSize} : Construct(n)

NextFill ==
  \/ pool_size_ = PoolSize /\ Next
  \/ /\ pool_size_ # PoolSize
     /\ \/ \E p \in Allocated : FetchPage(p, FillMaxPin)
        \/ \E p \in Allocated : UnpinPage(p, FALSE)
        \/ NewPage(FillMaxPages)

SpecFill == InitFill /\ [][NextFill]_vars

\* SpecLRU: the replacer alone, driven by arbitrary Victim, Pin and Unpin calls on
\* frame ids 0 .. LruFrames-1.
LRUVictim ==
  /\ IF ~ReplacerHasVictim(usedFrames)
     THEN /\ lru_last' = [op |-> "Victim", frame_id |-> 0, ok |-> FALSE, victim |-> {}]
          /\ UNCHANGED <<usedFrames, fifo>>
     ELSE /\ usedFrames' = ReplacerAfterVictim(usedFrames)
          /\ lru_last' = [op |-> "Victim", frame_id |-> 0, ok |-> TRUE,
                          victim |-> {ReplacerVictim(usedFrames)}]
          /\ fifo' = SelectSeq(fifo, LAMBDA x : x # ReplacerVictim(usedFrames))
  /\ UNCHANGED <<pool_size_, pages_, page_table_, free_list_, disk, next_page_id, flushed,
               zeroed, treeVars, threadVars>>

LRUPin(frame_id) ==
  /\ usedFrames' = ReplacerPin(usedFrames, frame_id)
  /\ lru_last' = [op |-> "Pin", frame_id |-> frame_id, ok |-> TRUE, victim |-> {}]
  /\ fifo' = SelectSeq(fifo, LAMBDA x : x # frame_id)
  /\ UNCHANGED <<pool_size_, pages_, page_table_, free_list_, disk, next_page_id, flushed,
               zeroed, treeVars, threadVars>>

\* An Unpin is effective when the frame was not a candidate before it.
LRUUnpin(frame_id) ==
  /\ usedFrames' = ReplacerUnpin(usedFrames, frame_id)
  /\ lru_last' = [op |-> "Unpin", frame_id |-> frame_id, ok |-> TRUE, victim |-> {}]
  /\ fifo' = IF frame_id \in Range(fifo) THEN fifo ELSE Append(fifo, frame_id)
  /\ UNCHANGED <<pool_size_, pages_, page_table_, free_list_, disk, next_page_id, flushed,
               zeroed, treeVars, threadVars>>

InitLRU == Construct(LruFrames)

NextLRU ==
  \/ LRUVictim
  \/ \E f \in Frames : LRUPin(f)
  \/ \E f \in Frames : LRUUnpin(f)

SpecLRU == InitLRU /\ [][NextLRU]_vars

\* ================================================================ B+ tree
\* ------------------------------------------------------------- node pages
\* A node is the typed view of a page's bytes (BPlusTreePage header, then the
\* array of pairs).  array holds the first GetSize() pairs, 1-based here: the
\* code's array[i] is array[i + 1].  Entry 0's key is the dummy slot; it is
\* stored like any other key and holds whatever was last written there.
HEADER_PAGE_ID == 0

\* A zeroed page read as a node: every header field is 0 and there are no pairs.
ZeroNode ==
  [page_type |-> "INVALID_INDEX_PAGE", max_size |-> 0, parent_page_id |-> 0,
   page_id |-> 0, next_page_id |-> 0, array |-> <<>>]

\* std::pair<KeyType, ValueType>
MappingType(key, value) == [first |-> key, second |-> value]

GetSize(node) == Len(node.array)

\* BPlusTreePage::GetMinSize
InternalMinSize(max_size) == (max_size + 1) \div 2

LeafMinSize(max_size) == max_size \div 2

GetMinSize(node) ==
  IF node.page_type = "LEAF_PAGE" THEN LeafMinSize(node.max_size)
  ELSE InternalMinSize(node.max_size)

IsLeafPage(node) == node.page_type = "LEAF_PAGE"

IsRootPage(node) == node.parent_page_id = INVALID_PAGE_ID

\* ---------------------------------------------- the tree's use of the pool
\* The pool as one value (Pool), extended with the tree object's fields and
\* with what the running tree operation has done so far:
\*   pins    page id -> FetchPage/NewPage calls minus UnpinPage calls on that id
\*   extra   page ids that got an UnpinPage call without an earlier unmatched
\*           FetchPage/NewPage of this operation
\*   held    page id -> the page's bytes as each unmatched FetchPage/NewPage of
\*           this operation handed them out, the latest last
\*   unpins  the matched UnpinPage calls on resident pages: the page id, the
\*           is_dirty argument, and whether the page's bytes differ from what
\*           the matching FetchPage/NewPage handed out
\*   failed  the assert statements whose condition was false when reached
\*   stale   the places that read a page through a pointer into a frame on
\*           whose page the call held no pin
\*   oom     a FetchPage or NewPage returned nullptr
\*   undef   an array was indexed outside the page's pairs
Tree ==
  [pages |-> pages_, page_table |-> page_table_, free_list |-> free_list_,
   usedFrames |-> usedFrames, disk |-> disk, next_page_id |-> next_page_id,
   ok |-> TRUE, frame |-> {}, page_id |-> INVALID_PAGE_ID, io |-> <<>>,
   root_page_id |-> root_page_id_, leaf_max_size |-> leaf_max_size_,
   internal_max_size |-> internal_max_size_,
   pins |-> <<>>, extra |-> {}, failed |-> {}, oom |-> FALSE, undef |-> FALSE,
   held |-> <<>>, unpins |-> {}, stale |-> {}, result |-> FALSE]

PinsOf(s, page_id) == IF page_id \in DOMAIN s.pins THEN s.pins[page_id] ELSE 0

HeldOf(s, page_id) == IF page_id \in DOMAIN s.held THEN s.held[page_id] ELSE <<>>

\* assert(cond) at the place named by name; execution continues (NDEBUG) and
\* the failure is recorded.
AssertThat(s, cond, name) == IF cond THEN s ELSE [s EXCEPT !.failed = @ \cup {name}]

\* The page behind a pointer into frame f is read at the place named by name:
\* the pointer is good while the frame holds a page of the page table on which
\* the call holds a pin; any other read is recorded.
ReadThrough(s, f, name) ==
  IF /\ s.pages[f].page_id \in DOMAIN s.page_table
     /\ s.page_table[s.pages[f].page_id] = f
     /\ PinsOf(s, s.pages[f].page_id) > 0
  THEN s ELSE [s EXCEPT !.stale = @ \cup {name}]

\* The frame a Page pointer returned by the pool points to; a nullptr is
\* recorded and replaced by frame 0 so that evaluation continues.
PointerOf(r) == IF r.frame = {} THEN 0 ELSE CHOOSE f \in r.frame : TRUE

\* A local variable of a function body: f is [name \in {value} |-> rest], the
\* rest of the body as a function of the variable, and Bind(f) is the rest of
\* the body with the variable holding the value.
Bind(f) == f[CHOOSE value \in DOMAIN f : TRUE]

\* buffer_pool_manager_->FetchPage(page_id)
BpmFetchPage(s, page_id) ==
  Bind([r \in {FetchPageImpl(s, page_id)} |->
  [r EXCEPT !.pins = Assign(@, page_id, PinsOf(s, page_id) + 1),
            !.held = IF r.frame = {} THEN @
                     ELSE Assign(@, page_id, Append(HeldOf(s, page_id), r.pages[PointerOf(r)].data)),
            !.oom = @ \/ r.frame = {}]])

\* buffer_pool_manager_->NewPage(&page_id)
BpmNewPage(s) ==
  Bind([r \in {NewPageImpl(s)} |->
  IF r.frame = {} THEN [r EXCEPT !.oom = TRUE]
  ELSE [r EXCEPT !.pins = Assign(@, r.page_id, PinsOf(s, r.page_id) + 1),
                 !.held = Assign(@, r.page_id, Append(HeldOf(s, r.page_id), r.pages[PointerOf(r)].data))]])

\* buffer_pool_manager_->UnpinPage(page_id, is_dirty)
BpmUnpinPage(s, page_id, is_dirty) ==
  Bind([r \in {UnpinPageImpl(s, page_id, is_dirty)} |->
  IF PinsOf(s, page_id) > 0
  THEN [r EXCEPT !.pins = Assign(@, page_id, PinsOf(s, page_id) - 1),
                 !.held = Assign(@, page_id, PopBack(HeldOf(s, page_id))),
                 !.unpins = IF page_id \in DOMAIN s.page_table /\ HeldOf(s, page_id) # <<>>
                            THEN @ \cup {[page_id |-> page_id, is_dirty |-> is_dirty,
                                          mutated |-> s.pages[s.page_table[page_id]].data
                                                        # Back(HeldOf(s, page_id))]}
                            ELSE @]
  ELSE [r EXCEPT !.extra = @ \cup {page_id}]])

\* buffer_pool_manager_->DeletePage(page_id)
BpmDeletePage(s, page_id) == DeletePageImpl(s, page_id)

\* The node a pointer to frame f reads, and the same pointer written through.
NodeAt(s, f) == s.pages[f].data

SetNode(s, f, node) == [s EXCEPT !.pages[f].data = node]

\* ------------------------------------------------- BPlusTreeInternalPage
Min(S) == CHOOSE x \in S : \A y \in S : x <= y

\* Init: page type, size 0, max size, parent id, page id
InternalInit(page_id, parent_id, max_size) ==
  [page_type |-> "INTERNAL_PAGE", max_size |-> max_size, parent_page_id |-> parent_id,
   page_id |-> page_id, next_page_id |-> 0, array |-> <<>>]

\* The index of the first pair whose key equals key, the dummy slot included; -1 if none.
KeyIndex(node, key) ==
  LET hits == {i \in 1 .. Len(node.array) : node.array[i].first = key} IN
  IF hits = {} THEN -1 ELSE Min(hits) - 1

\* The index of the first pair whose value equals value; -1 if none.
ValueIndex(node, value) ==
  LET hits == {i \in 1 .. Len(node.array) : node.array[i].second = value} IN
  IF hits = {} THEN -1 ELSE Min(hits) - 1

\* KeyAt / ValueAt / SetKeyAt: assert(index >= 0 && index < GetSize())
InBounds(node, index) == index >= 0 /\ index < GetSize(node)

\* Mutant: a key equal to a separator is routed to the child on its left.
InternalLookup_NotStrict(node, key) ==
  LET hits == {i \in 2 .. Len(node.array) : node.array[i].first >= key} IN
  IF hits = {} THEN node.array[Len(node.array)].second
  ELSE node.array[Min(hits) - 1].second

\* Lookup: the child before the first key (from index 1 on) greater than key,
\* else the last child.
InternalLookup(node, key) ==
  LET hits == {i \in 2 .. Len(node.array) : node.array[i].first > key} IN
  IF hits = {} THEN node.array[Len(node.array)].second
  ELSE node.array[Min(hits) - 1].second

\* PopulateNewRoot: the key of slot 0 is left as the zeroed page has it.
PopulateNewRoot(node, old_value, new_key, new_value) ==
  [node EXCEPT !.array = <<MappingType(0, old_value), MappingType(new_key, new_value)>>,
               !.parent_page_id = INVALID_PAGE_ID]

\* InsertNodeAfter: the new pair right after the pair whose value is old_value.
InsertNodeAfter(node, old_value, new_key, new_value) ==
  LET index == ValueIndex(node, old_value) + 1 IN
  [node EXCEPT !.array = SubSeq(@, 1, index) \o <<MappingType(new_key, new_value)>>
                           \o SubSeq(@, index + 1, Len(@))]

\* A child page is fetched, its parent_page_id is set, and it is unpinned dirty
\* under unpin_id(child node), the id the code passes to UnpinPage.
AdoptChild(s, child_id, parent_id, by_own_id) ==
  Bind([s1 \in {BpmFetchPage(s, child_id)} |->
  LET c == PointerOf(s1)
  IN
  Bind([s2 \in {SetNode(s1, c, [NodeAt(s1, c) EXCEPT !.parent_page_id = parent_id])} |->
  BpmUnpinPage(s2, IF by_own_id THEN NodeAt(s2, c).page_id ELSE child_id, TRUE)])])

RECURSIVE AdoptChildren(_, _, _)
AdoptChildren(s, pairs, parent_id) ==
  IF pairs = <<>> THEN s
  ELSE AdoptChildren(AdoptChild(s, Head(pairs).second, parent_id, FALSE), Tail(pairs), parent_id)

\* Mutant: the lower half keeps the larger share of an odd number of pairs.
InternalMoveHalfTo_LowerCeil(s, f, g) ==
  LET node == NodeAt(s, f)
      total == node.max_size + 1
      copyIdx == (total + 1) \div 2
      moved == SubSeq(node.array, copyIdx + 1, total)
  IN
  Bind([s1 \in {AdoptChildren(s, moved, NodeAt(s, g).page_id)} |->
  SetNode(SetNode(s1, f, [node EXCEPT !.array = SubSeq(@, 1, copyIdx)]),
          g, [NodeAt(s1, g) EXCEPT !.array = moved])])

\* MoveHalfTo: pairs copyIdx .. total-1 go to the recipient through SetKeyAt and
\* SetValueAt (whose index assert compares with the recipient's size, still 0),
\* each moved child is adopted, then both sizes are set.
InternalMoveHalfTo(s, f, g) ==
  LET node == NodeAt(s, f)
      total == node.max_size + 1
      copyIdx == total \div 2
      moved == SubSeq(node.array, copyIdx + 1, total)
  IN
  Bind([s0 \in {AssertThat(AssertThat(s, GetSize(node) = total, "MoveHalfTo: GetSize() == total"),
                           \A i \in copyIdx .. (total - 1) : InBounds(NodeAt(s, g), i - copyIdx),
                           "SetKeyAt: index < GetSize()")} |->
  Bind([s1 \in {AdoptChildren(s0, moved, NodeAt(s, g).page_id)} |->
  SetNode(SetNode(s1, f, [node EXCEPT !.array = SubSeq(@, 1, copyIdx)]),
          g, [NodeAt(s1, g) EXCEPT !.array = moved])])])

\* Remove(index): the pairs after index move one slot to the left.
InternalRemove(node, index) ==
  [node EXCEPT !.array = SubSeq(@, 1, index) \o SubSeq(@, index + 2, Len(@))]

\* Mutant: the first moved pair keeps the key of slot 0 instead of the
\* parent's separator.
InternalMoveAllTo_KeepsFirstKey(s, f, g, middle_key) ==
  LET node == NodeAt(s, f)
      recipient == NodeAt(s, g)
  IN
  Bind([s1 \in {AdoptChildren(s, node.array, recipient.page_id)} |->
  Bind([s3 \in {SetNode(SetNode(s1, g, [NodeAt(s1, g) EXCEPT !.array = @ \o node.array]),
                        f, [NodeAt(s1, f) EXCEPT !.array = <<>>])} |->
  BpmUnpinPage(BpmUnpinPage(s3, NodeAt(s3, f).page_id, TRUE), NodeAt(s3, g).page_id, TRUE)])])

\* MoveAllTo: the separator becomes the key of this node's slot 0, all pairs are
\* appended to the recipient (SetKeyAt/SetValueAt beyond its size), the children
\* are adopted, the sizes are set, and both pages are unpinned dirty.
InternalMoveAllTo(s, f, g, middle_key) ==
  LET node == NodeAt(s, f)
      recipient == NodeAt(s, g)
      pairs == IF node.array = <<>> THEN <<>>
               ELSE <<MappingType(middle_key, node.array[1].second)>> \o Tail(node.array)
      start == GetSize(recipient)
      size == GetSize(node)
  IN
  Bind([s0 \in {AssertThat(s, /\ InBounds(node, 0)
                              /\ \A i \in 0 .. (size - 1) : InBounds(recipient, start + i),
                           "SetKeyAt: index < GetSize()")} |->
  Bind([s1 \in {AdoptChildren(s0, pairs, recipient.page_id)} |->
  Bind([s2 \in {AssertThat(s1, start + size <= node.max_size,
                           "MoveAllTo: recipient->GetSize() <= GetMaxSize()")} |->
  Bind([s3 \in {SetNode(SetNode(s2, g, [NodeAt(s2, g) EXCEPT !.array = @ \o pairs]),
                        f, [NodeAt(s2, f) EXCEPT !.array = <<>>])} |->
  BpmUnpinPage(BpmUnpinPage(s3, NodeAt(s3, f).page_id, TRUE), NodeAt(s3, g).page_id, TRUE)])])])])

\* The parent of the page in frame f is fetched, the first slot holding
\* middle_key (slot 0 included) gets removed_key, and the parent is unpinned dirty.
ReplaceKeyInParent(s, f, middle_key, removed_key) ==
  LET parent_id == NodeAt(s, f).parent_page_id
  IN
  Bind([s1 \in {BpmFetchPage(s, parent_id)} |->
  LET p == PointerOf(s1)
      middle_index == KeyIndex(NodeAt(s1, p), middle_key)
  IN
  Bind([s2 \in {IF middle_index < 0
                THEN [AssertThat(s1, FALSE, "SetKeyAt: index >= 0") EXCEPT !.undef = TRUE]
                ELSE SetNode(s1, p, [NodeAt(s1, p) EXCEPT !.array[middle_index + 1].first = removed_key])} |->
  BpmUnpinPage(s2, NodeAt(s2, f).parent_page_id, TRUE)])])

\* CopyLastFrom: the pair is appended and its child adopted.
CopyLastFrom(s, g, pair) ==
  LET node == NodeAt(s, g)
  IN
  Bind([s0 \in {AssertThat(s, GetSize(node) + 1 <= node.max_size,
                           "CopyLastFrom: GetSize() + 1 <= GetMaxSize()")} |->
  Bind([s1 \in {SetNode(s0, g, [node EXCEPT !.array = Append(@, pair)])} |->
  AdoptChild(s1, pair.second, NodeAt(s1, g).page_id, TRUE)])])

\* MoveFirstToEndOf: the donor (frame f) gives its first child to the end of the
\* recipient (frame g) under middle_key, and array[1].first replaces middle_key
\* in the parent.
InternalMoveFirstToEndOf(s, f, g, middle_key) ==
  LET node == NodeAt(s, f)
  IN
  Bind([s0 \in {AssertThat(s, GetSize(node) > 0, "MoveFirstToEndOf: GetSize() > 0")} |->
  LET removed_key == node.array[2].first
      removed_pointer == node.array[1].second
  IN
  Bind([s1 \in {SetNode(s0, f, [node EXCEPT !.array = Tail(@)])} |->
  Bind([s2 \in {CopyLastFrom(s1, g, MappingType(middle_key, removed_pointer))} |->
  IF GetSize(node) < 2 THEN [s0 EXCEPT !.undef = TRUE]
  ELSE ReplaceKeyInParent(s2, f, middle_key, removed_key)])])])

\* CopyFirstFrom: "array[i + 1] = array[i]" for i = 0 .. size-1 in ascending
\* order copies the old first pair into every slot 1 .. size; then slot 0 gets
\* the value and slot 1 the key of the new pair.  With size 0 the key lands
\* beyond the size and slot 0 keeps the key the page held there (zero on a
\* page that never had a pair).
CopyFirstFrom(s, g, pair) ==
  LET node == NodeAt(s, g)
      old == node.array
      size == Len(old)
  IN
  Bind([s0 \in {AssertThat(s, size < node.max_size, "CopyFirstFrom: size < GetMaxSize()")} |->
  LET new == IF size = 0 THEN <<MappingType(0, pair.second)>>
             ELSE <<MappingType(old[1].first, pair.second), MappingType(pair.first, old[1].second)>>
                    \o [i \in 1 .. (size - 1) |-> old[1]]
  IN
  Bind([s1 \in {SetNode(s0, g, [node EXCEPT !.array = new])} |->
  AdoptChild(s1, pair.second, NodeAt(s1, g).page_id, TRUE)])])

\* MoveLastToFrontOf: the donor (frame f) gives its last child to the front of
\* the recipient (frame g) under middle_key, and the donor's last key replaces
\* middle_key in the parent.
InternalMoveLastToFrontOf(s, f, g, middle_key) ==
  LET node == NodeAt(s, f)
  IN
  Bind([s0 \in {AssertThat(s, GetSize(node) > 0, "MoveLastToFrontOf: GetSize() > 0")} |->
  LET removed == node.array[Len(node.array)]
  IN
  Bind([s1 \in {SetNode(s0, f, [node EXCEPT !.array = SubSeq(@, 1, Len(@) - 1)])} |->
  Bind([s2 \in {CopyFirstFrom(s1, g, MappingType(middle_key, removed.second))} |->
  IF GetSize(node) < 1 THEN [s0 EXCEPT !.undef = TRUE]
  ELSE ReplaceKeyInParent(s2, f, middle_key, removed.first)])])])

\* ----------------------------------------------------- BPlusTreeLeafPage
\* Init: a leaf with no pairs and no next leaf.
LeafInit(page_id, parent_id, max_size) ==
  [page_type |-> "LEAF_PAGE", max_size |-> max_size, parent_page_id |-> parent_id,
   page_id |-> page_id, next_page_id |-> INVALID_PAGE_ID, array |-> <<>>]

\* Lookup: the values stored under key in this leaf (none or one).
LeafLookup(node, key) == {node.array[i].second : i \in {j \in 1 .. Len(node.array) : node.array[j].first = key}}

\* Insert: the pair goes before the first pair with a greater key.
LeafInsert(node, key, value) ==
  LET below == SelectSeq(node.array, LAMBDA e : e.first < key)
      above == SelectSeq(node.array, LAMBDA e : ~(e.first < key))
  IN [node EXCEPT !.array = below \o <<MappingType(key, value)>> \o above]

\* RemoveAndDeleteRecord: the pair of key is removed if there is one.
LeafRemoveAndDeleteRecord(node, key) ==
  [node EXCEPT !.array = SelectSeq(@, LAMBDA e : e.first # key)]

\* MoveHalfTo: the pairs from index max_size/2 on move to the new leaf, which is
\* spliced into the leaf list after this one.
LeafMoveHalfTo(s, f, g) ==
  LET node == NodeAt(s, f)
      copyIdx == node.max_size \div 2
  IN SetNode(SetNode(s, g, [NodeAt(s, g) EXCEPT !.array = SubSeq(node.array, copyIdx + 1, Len(node.array)),
                                                !.next_page_id = node.next_page_id]),
             f, [node EXCEPT !.array = SubSeq(@, 1, copyIdx),
                             !.next_page_id = NodeAt(s, g).page_id])

\* MoveAllTo: all pairs are appended to the recipient (the left one), which
\* inherits this leaf's next_page_id.
LeafMoveAllTo(s, f, g, middle_key) ==
  LET node == NodeAt(s, f)
  IN SetNode(SetNode(s, g, [NodeAt(s, g) EXCEPT !.array = @ \o node.array,
                                                !.next_page_id = node.next_page_id]),
             f, [node EXCEPT !.array = <<>>])

\* The separator of the child child_id in the parent of the leaf in frame f is
\* set to key; the parent is fetched for it and unpinned dirty.
LeafSetSeparator(s, f, child_id, key) ==
  LET parent_id == NodeAt(s, f).parent_page_id
  IN
  Bind([s1 \in {BpmFetchPage(s, parent_id)} |->
  LET p == PointerOf(s1)
      index == ValueIndex(NodeAt(s1, p), child_id)
  IN
  Bind([s2 \in {IF index < 0 THEN s1
                ELSE SetNode(s1, p, [NodeAt(s1, p) EXCEPT !.array[index + 1].first = key])} |->
  BpmUnpinPage(s2, parent_id, TRUE)])])

\* MoveFirstToEndOf: this leaf (the right sibling) gives its first pair to the
\* end of the recipient; its separator in the parent becomes its new first key.
LeafMoveFirstToEndOf(s, f, g, middle_key) ==
  LET node == NodeAt(s, f)
  IN
  Bind([s1 \in {SetNode(SetNode(s, g, [NodeAt(s, g) EXCEPT !.array = Append(@, Head(node.array))]),
                        f, [node EXCEPT !.array = Tail(@)])} |->
  LeafSetSeparator(s1, f, node.page_id, NodeAt(s1, f).array[1].first)])

\* MoveLastToFrontOf: this leaf (the left sibling) gives its last pair to the
\* front of the recipient, whose separator in the parent becomes that pair's key.
LeafMoveLastToFrontOf(s, f, g, middle_key) ==
  LET node == NodeAt(s, f)
      last == node.array[Len(node.array)]
  IN
  Bind([s1 \in {SetNode(SetNode(s, g, [NodeAt(s, g) EXCEPT !.array = <<last>> \o @]),
                        f, [node EXCEPT !.array = SubSeq(@, 1, Len(@) - 1)])} |->
  LeafSetSeparator(s1, f, NodeAt(s1, g).page_id, last.first)])

\* ------------------------------------------------------------ HeaderPage
\* The header page keeps one record per index name; the model has one index,
\* whose name is written 0.
\* InsertRecord adds the record unless the name has one already.
HeaderInsertRecord(header, root_id) ==
  IF header.array # <<>> THEN header
  ELSE [header EXCEPT !.array = <<MappingType(0, root_id)>>]

\* UpdateRecord changes the record of the name if it has one.
HeaderUpdateRecord(header, root_id) ==
  IF header.array = <<>> THEN header
  ELSE [header EXCEPT !.array = <<MappingType(0, root_id)>>]

\* -------------------------------------------------------------- BPlusTree
\* BPlusTree::BPlusTree: the tree object's fields on a pool that holds the
\* header page
IsEmpty(s) == s.root_page_id = INVALID_PAGE_ID

\* The result of a call that returns a node pointer: ptr is {f} for a pointer
\* into frame f and {} for nullptr.
Returning(s, ptr) == [s EXCEPT !.frame = ptr]

\* BPlusTree::FetchPage: the pool's FetchPage, then page->GetData()
TreeFetchPage(s, page_id) == BpmFetchPage(s, page_id)

\* UpdateRootPageId
UpdateRootPageId(s, insert_record) ==
  Bind([s1 \in {BpmFetchPage(s, HEADER_PAGE_ID)} |->
  LET h == PointerOf(s1)
  IN
  Bind([s2 \in {SetNode(s1, h, IF insert_record
                               THEN HeaderInsertRecord(NodeAt(s1, h), s.root_page_id)
                               ELSE HeaderUpdateRecord(NodeAt(s1, h), s.root_page_id))} |->
  BpmUnpinPage(s2, HEADER_PAGE_ID, TRUE)])])

\* FindLeafPage's loop: pointer (frame f) is the page cur; while it is not a
\* leaf, the next child is chosen, cur is unpinned clean and the child fetched.
RECURSIVE FindLeafFrom(_, _, _, _, _)
FindLeafFrom(s, cur, f, key, leftMost) ==
  LET node == NodeAt(s, f)
  IN IF IsLeafPage(node) THEN Returning(s, {f})
     ELSE IF GetSize(node) = 0 THEN Returning([s EXCEPT !.undef = TRUE], {f})
     ELSE LET next == IF leftMost THEN node.array[1].second ELSE InternalLookup(node, key)
          IN
          Bind([s1 \in {BpmUnpinPage(s, cur, FALSE)} |->
          Bind([s2 \in {TreeFetchPage(s1, next)} |->
          IF s2.frame = {} THEN Returning(s2, {})
          ELSE FindLeafFrom(s2, next, PointerOf(s2), key, leftMost)])])

\* FindLeafPage: nullptr on an empty tree, else the leaf (left pinned) that the
\* descent from the root reaches.
FindLeafPage(s, key, leftMost) ==
  IF IsEmpty(s) THEN Returning(s, {})
  ELSE Bind([s1 \in {TreeFetchPage(s, s.root_page_id)} |->
       IF s1.frame = {} THEN Returning(s1, {})
       ELSE FindLeafFrom(s1, s.root_page_id, PointerOf(s1), key, leftMost)])

\* GetValue: result is the set of values found (none or one).
GetValue(s, key) ==
  Bind([s1 \in {FindLeafPage(s, key, FALSE)} |->
  IF s1.frame = {} THEN [s1 EXCEPT !.ok = FALSE, !.result = {}]
  ELSE LET tar == PointerOf(s1)
           found == LeafLookup(NodeAt(s1, tar), key)
       IN
       Bind([s2 \in {BpmUnpinPage(s1, NodeAt(s1, tar).page_id, FALSE)} |->
       [s2 EXCEPT !.ok = found # {}, !.result = found]])])

\* StartNewTree
StartNewTree(s, key, value) ==
  Bind([s1 \in {BpmNewPage(s)} |->
  LET newPageId == s1.page_id
      root == PointerOf(s1)
  IN
  Bind([s2 \in {SetNode(AssertThat(s1, s1.frame # {}, "StartNewTree: rootPage != nullptr"),
                        root, LeafInit(newPageId, INVALID_PAGE_ID, s.leaf_max_size))} |->
  Bind([s3 \in {UpdateRootPageId([s2 EXCEPT !.root_page_id = newPageId], TRUE)} |->
  Bind([s4 \in {SetNode(s3, root, LeafInsert(NodeAt(s3, root), key, value))} |->
  BpmUnpinPage(s4, newPageId, TRUE)])])])])

\* Split: a new page is initialised as a node of the same kind with the same
\* parent and max size, and takes the upper half; it is returned pinned.
Split(s, f, leaf) ==
  Bind([s1 \in {BpmNewPage(s)} |->
  LET newPageId == s1.page_id
      g == PointerOf(s1)
      node == NodeAt(s1, f)
  IN
  Bind([s2 \in {SetNode(AssertThat(s1, s1.frame # {}, "Split: newPage != nullptr"), g,
                        IF leaf THEN LeafInit(newPageId, node.parent_page_id, node.max_size)
                        ELSE InternalInit(newPageId, node.parent_page_id, node.max_size))} |->
  Returning(IF leaf THEN LeafMoveHalfTo(s2, f, g) ELSE InternalMoveHalfTo(s2, f, g), {g})])])

\* InsertIntoParent(old_node, key, new_node); f and g are the frames of
\* old_node and new_node.
RECURSIVE InsertIntoParent(_, _, _, _)
InsertIntoParent(s, f, key, g) ==
  IF IsRootPage(NodeAt(s, f))
  THEN Bind([s1 \in {BpmNewPage(s)} |->
       LET h == PointerOf(s1)
           root_id == s1.page_id
       IN
       Bind([s2 \in {AssertThat(AssertThat([s1 EXCEPT !.root_page_id = root_id], s1.frame # {},
                                           "InsertIntoParent: newPage != nullptr"),
                                s1.pages[h].pin_count = 1,
                                "InsertIntoParent: newPage->GetPinCount() == 1")} |->
       Bind([s3 \in {SetNode(s2, h, PopulateNewRoot(InternalInit(root_id, INVALID_PAGE_ID,
                                                                s.internal_max_size),
                                                    NodeAt(s2, f).page_id, key, NodeAt(s2, g).page_id))} |->
       Bind([s4 \in {SetNode(s3, f, [NodeAt(s3, f) EXCEPT !.parent_page_id = root_id])} |->
       Bind([s5 \in {SetNode(s4, g, [NodeAt(s4, g) EXCEPT !.parent_page_id = root_id])} |->
       Bind([s6 \in {UpdateRootPageId(s5, FALSE)} |->
       Bind([s7 \in {BpmUnpinPage(s6, NodeAt(s6, g).page_id, TRUE)} |->
       BpmUnpinPage(s7, NodeAt(s7, h).page_id, TRUE)])])])])])])])
  ELSE LET parentId == NodeAt(s, f).parent_page_id
       IN
       Bind([s1 \in {BpmFetchPage(s, parentId)} |->
       LET p == PointerOf(s1)
       IN
       Bind([s2 \in {SetNode(AssertThat(s1, s1.frame # {}, "InsertIntoParent: page != nullptr"),
                             g, [NodeAt(s1, g) EXCEPT !.parent_page_id = parentId])} |->
       Bind([s3 \in {BpmUnpinPage(s2, NodeAt(s2, g).page_id, TRUE)} |->
       Bind([s4 \in {SetNode(AssertThat(s3, ValueIndex(NodeAt(s3, p), NodeAt(s3, f).page_id) + 1 > 0,
                                        "InsertNodeAfter: index > 0"),
                             p, InsertNodeAfter(NodeAt(s3, p), NodeAt(s3, f).page_id, key,
                                                NodeAt(s3, g).page_id))} |->
       Bind([s5 \in {IF GetSize(NodeAt(s4, p)) > NodeAt(s4, p).max_size
                     THEN Bind([s41 \in {Split(s4, p, FALSE)} |->
                          LET n == PointerOf(s41)
                          IN
                          InsertIntoParent(s41, p, NodeAt(s41, n).array[1].first, n)])
                     ELSE s4} |->
       BpmUnpinPage(s5, parentId, TRUE)])])])])])

\* Mutant: the leaf is split one entry late.
InsertIntoLeaf_LateSplit(s, key, value) ==
  Bind([s1 \in {FindLeafPage(s, key, FALSE)} |->
  LET leafPage == PointerOf(s1)
      exist == LeafLookup(NodeAt(s1, leafPage), key) # {}
  IN
  IF exist
  THEN [BpmUnpinPage(s1, NodeAt(s1, leafPage).page_id, FALSE) EXCEPT !.ok = FALSE]
  ELSE Bind([s2 \in {SetNode(s1, leafPage, LeafInsert(NodeAt(s1, leafPage), key, value))} |->
       Bind([s3 \in {IF GetSize(NodeAt(s2, leafPage)) > NodeAt(s2, leafPage).max_size + 1
                     THEN Bind([s21 \in {Split(s2, leafPage, TRUE)} |->
                          LET n == PointerOf(s21)
                          IN
                          InsertIntoParent(s21, leafPage, NodeAt(s21, n).array[1].first, n)])
                     ELSE s2} |->
       [BpmUnpinPage(s3, NodeAt(s3, leafPage).page_id, TRUE) EXCEPT !.ok = TRUE]])])])

\* InsertIntoLeaf
InsertIntoLeaf(s, key, value) ==
  Bind([s1 \in {FindLeafPage(s, key, FALSE)} |->
  LET leafPage == PointerOf(s1)
      exist == LeafLookup(NodeAt(s1, leafPage), key) # {}
  IN
  IF exist
  THEN [BpmUnpinPage(s1, NodeAt(s1, leafPage).page_id, FALSE) EXCEPT !.ok = FALSE]
  ELSE Bind([s2 \in {SetNode(s1, leafPage, LeafInsert(NodeAt(s1, leafPage), key, value))} |->
       Bind([s3 \in {IF GetSize(NodeAt(s2, leafPage)) > NodeAt(s2, leafPage).max_size
                     THEN Bind([s21 \in {Split(s2, leafPage, TRUE)} |->
                          LET n == PointerOf(s21)
                          IN
                          InsertIntoParent(s21, leafPage, NodeAt(s21, n).array[1].first, n)])
                     ELSE s2} |->
       [BpmUnpinPage(s3, NodeAt(s3, leafPage).page_id, TRUE) EXCEPT !.ok = TRUE]])])])

\* Insert
InsertImpl(s, key, value) ==
  IF IsEmpty(s) THEN [StartNewTree(s, key, value) EXCEPT !.ok = TRUE]
  ELSE InsertIntoLeaf(s, key, value)

\* AdjustRoot; f is the frame old_root_node points into.
AdjustRoot(s, f) ==
  IF IsLeafPage(NodeAt(s, f))
  THEN Bind([s0 \in {AssertThat(AssertThat(s, GetSize(NodeAt(s, f)) = 0,
                                           "AdjustRoot: old_root_node->GetSize() == 0"),
                                NodeAt(s, f).parent_page_id = INVALID_PAGE_ID,
                                "AdjustRoot: old_root_node->GetParentPageId() == INVALID_PAGE_ID")} |->
       Bind([s1 \in {BpmUnpinPage(s0, NodeAt(s0, f).page_id, FALSE)} |->
       Bind([s2 \in {BpmDeletePage(ReadThrough(s1, f, "AdjustRoot: DeletePage(old_root_node->GetPageId())"),
                                   NodeAt(s1, f).page_id)} |->
       [UpdateRootPageId([s2 EXCEPT !.root_page_id = INVALID_PAGE_ID], FALSE)
          EXCEPT !.result = TRUE]])])])
  ELSE IF GetSize(NodeAt(s, f)) = 1
  THEN LET newRootId == NodeAt(s, f).array[1].second
       IN
       Bind([s1 \in {SetNode(s, f, [NodeAt(s, f) EXCEPT !.array = <<>>])} |->
       Bind([s2 \in {UpdateRootPageId([s1 EXCEPT !.root_page_id = newRootId], FALSE)} |->
       Bind([s3 \in {BpmFetchPage(s2, s2.root_page_id)} |->
       LET newRoot == PointerOf(s3)
       IN
       Bind([s4 \in {SetNode(AssertThat(s3, s3.frame # {}, "AdjustRoot: page != nullptr"), newRoot,
                             [NodeAt(s3, newRoot) EXCEPT !.parent_page_id = INVALID_PAGE_ID])} |->
       Bind([s5 \in {BpmUnpinPage(s4, s4.root_page_id, TRUE)} |->
       Bind([s6 \in {BpmUnpinPage(s5, NodeAt(s5, f).page_id, FALSE)} |->
       Bind([s7 \in {BpmDeletePage(ReadThrough(s6, f, "AdjustRoot: DeletePage(old_root_node->GetPageId())"),
                                   NodeAt(s6, f).page_id)} |->
       [s7 EXCEPT !.result = TRUE]])])])])])])])
  ELSE [s EXCEPT !.result = FALSE]

\* FindSibling: frame is the sibling's pointer and result is "index == 0" (the
\* right sibling was taken).  The parent is fetched, read and unpinned clean;
\* the sibling stays pinned.
FindSibling(s, f) ==
  Bind([s1 \in {BpmFetchPage(s, NodeAt(s, f).parent_page_id)} |->
  LET parent == PointerOf(s1)
      index == ValueIndex(NodeAt(s1, parent), NodeAt(s1, f).page_id)
      siblingIndex == IF index = 0 THEN index + 1 ELSE index - 1
  IN
  IF ~InBounds(NodeAt(s1, parent), siblingIndex)
  THEN [AssertThat(s1, FALSE, "ValueAt: index < GetSize()") EXCEPT !.undef = TRUE]
  ELSE Bind([s2 \in {BpmFetchPage(s1, NodeAt(s1, parent).array[siblingIndex + 1].second)} |->
       Bind([s3 \in {BpmUnpinPage(s2, NodeAt(s2, parent).page_id, FALSE)} |->
       [s3 EXCEPT !.frame = s2.frame, !.result = (index = 0)]])])])

\* Redistribute(neighbor_node, node, index, middle_key); g and f are the frames
\* of neighbor_node and node.
Redistribute(s, g, f, index, middle_key, leaf) ==
  Bind([s1 \in {IF index = 0
                THEN IF leaf THEN LeafMoveFirstToEndOf(s, g, f, middle_key)
                     ELSE InternalMoveFirstToEndOf(s, g, f, middle_key)
                ELSE IF leaf THEN LeafMoveLastToFrontOf(s, g, f, middle_key)
                     ELSE InternalMoveLastToFrontOf(s, g, f, middle_key)} |->
  Bind([s2 \in {BpmUnpinPage(ReadThrough(s1, f, "Redistribute: node->GetPageId()"),
                              NodeAt(s1, f).page_id, TRUE)} |->
  BpmUnpinPage(ReadThrough(s2, g, "Redistribute: neighbor_node->GetPageId()"),
               NodeAt(s2, g).page_id, TRUE)])])

\* CoalesceOrRedistribute(node) and Coalesce(neighbor_node, node, parent, index);
\* f, g and p are the frames of node, neighbor_node and parent, and leaf tells
\* which page class N is.  result is the returned bool.
RECURSIVE CoalesceOrRedistribute(_, _, _)
RECURSIVE Coalesce(_, _, _, _, _, _)
Coalesce(s, g, f, p, index, leaf) ==
  Bind([s0 \in {AssertThat(s, GetSize(NodeAt(s, f)) + GetSize(NodeAt(s, g)) <= NodeAt(s, g).max_size,
                           "Coalesce: node->GetSize() + neighbor_node->GetSize() <= neighbor_node->GetMaxSize()")} |->
  IF ~InBounds(NodeAt(s0, p), index)
  THEN [AssertThat(s0, FALSE, "KeyAt: index < GetSize()") EXCEPT !.undef = TRUE]
  ELSE LET middle_key == NodeAt(s0, p).array[index + 1].first
       IN
       Bind([s1 \in {IF leaf THEN LeafMoveAllTo(s0, f, g, middle_key)
                     ELSE InternalMoveAllTo(s0, f, g, middle_key)} |->
       LET pId == NodeAt(s1, f).page_id
       IN
       Bind([s2 \in {BpmUnpinPage(ReadThrough(s1, f, "Coalesce: node->GetPageId()"), pId, TRUE)} |->
       Bind([s3 \in {BpmDeletePage(s2, pId)} |->
       Bind([s4 \in {BpmUnpinPage(ReadThrough(s3, g, "Coalesce: neighbor_node->GetPageId()"),
                                   NodeAt(s3, g).page_id, TRUE)} |->
       Bind([s5 \in {SetNode(s4, p, InternalRemove(NodeAt(s4, p), index))} |->
       IF GetSize(NodeAt(s5, p)) < GetMinSize(NodeAt(s5, p))
       THEN CoalesceOrRedistribute(s5, p, FALSE)
       ELSE [s5 EXCEPT !.result = FALSE]])])])])])])

CoalesceOrRedistribute(s, f, leaf) ==
  IF IsRootPage(NodeAt(s, f)) THEN AdjustRoot(s, f)
  ELSE Bind([s1 \in {FindSibling(s, f)} |->
       IF s1.undef THEN s1
       ELSE LET nPrevN2 == s1.result
                node2 == PointerOf(s1)
            IN
            Bind([s2 \in {TreeFetchPage(s1, NodeAt(s1, f).parent_page_id)} |->
            LET parentPage == PointerOf(s2)
            IN
            Bind([s3 \in {AssertThat(s2, s2.frame # {}, "CoalesceOrRedistribute: parent != nullptr")} |->
            IF GetSize(NodeAt(s3, f)) + GetSize(NodeAt(s3, node2)) <= NodeAt(s3, f).max_size
            THEN LET right == IF nPrevN2 THEN node2 ELSE f
                     left == IF nPrevN2 THEN f ELSE node2
                     removeIndex == ValueIndex(NodeAt(s3, parentPage), NodeAt(s3, right).page_id)
                 IN
                 Bind([s4 \in {Coalesce(s3, left, right, parentPage, removeIndex, leaf)} |->
                 [BpmUnpinPage(ReadThrough(s4, parentPage,
                                           "CoalesceOrRedistribute: parentPage->GetPageId() after Coalesce"),
                               NodeAt(s4, parentPage).page_id, TRUE)
                    EXCEPT !.result = TRUE]])
            ELSE LET nodeInParentIndex == ValueIndex(NodeAt(s3, parentPage), NodeAt(s3, f).page_id)
                 IN IF ~InBounds(NodeAt(s3, parentPage), nodeInParentIndex)
                    THEN [AssertThat(s3, FALSE, "KeyAt: index < GetSize()") EXCEPT !.undef = TRUE]
                    ELSE LET middle_key == NodeAt(s3, parentPage).array[nodeInParentIndex + 1].first
                         IN
                         Bind([s4 \in {Redistribute(s3, node2, f, nodeInParentIndex, middle_key, leaf)} |->
                         [BpmUnpinPage(ReadThrough(s4, parentPage,
                                                   "CoalesceOrRedistribute: parentPage->GetPageId() after Redistribute"),
                                       NodeAt(s4, parentPage).page_id, FALSE)
                            EXCEPT !.result = FALSE]])])])])

\* Remove
RemoveImpl(s, key) ==
  IF IsEmpty(s) THEN s
  ELSE Bind([s1 \in {FindLeafPage(s, key, FALSE)} |->
       LET delTar == PointerOf(s1)
       IN
       Bind([s2 \in {SetNode(s1, delTar, LeafRemoveAndDeleteRecord(NodeAt(s1, delTar), key))} |->
       LET curSize == GetSize(NodeAt(s2, delTar))
       IN
       Bind([s3 \in {IF curSize < GetMinSize(NodeAt(s2, delTar))
                     THEN CoalesceOrRedistribute(s2, delTar, TRUE)
                     ELSE s2} |->
       BpmUnpinPage(ReadThrough(s3, delTar, "Remove: delTar->GetPageId()"),
                    NodeAt(s3, delTar).page_id, TRUE)])])])

\* ---------------------------------------------------------- IndexIterator
\* An iterator object: page_id_, index_ and leaf_ (the frame leaf_ points into).
\* The result of a call that makes or changes an iterator is the tree state
\* with the iterator in result.
IteratorOf(page_id, index, leaf) == [page_id_ |-> page_id, index_ |-> index, leaf_ |-> leaf]

\* IndexIterator::IndexIterator: the page is fetched and stays pinned.
IndexIterator(s, page_id, index) ==
  Bind([s1 \in {BpmFetchPage(s, page_id)} |->
  Bind([s2 \in {AssertThat(s1, s1.frame # {}, "IndexIterator: page != nullptr")} |->
  [s2 EXCEPT !.result = IteratorOf(page_id, index, PointerOf(s1))]])])

\* IndexIterator::~IndexIterator
DestroyIterator(s, it) == BpmUnpinPage(s, it.page_id_, FALSE)

\* isEnd
isEnd(s, it) ==
  LET leaf == NodeAt(s, it.leaf_) IN
  it.index_ >= GetSize(leaf) /\ leaf.next_page_id = INVALID_PAGE_ID

\* operator*: the pair at index_, as a set (empty where index_ is not an index
\* of the leaf's pairs).
Deref(s, it) ==
  LET leaf == NodeAt(s, it.leaf_) IN
  IF it.index_ >= 0 /\ it.index_ < GetSize(leaf) THEN {leaf.array[it.index_ + 1]} ELSE {}

\* operator++ which keeps the pin of the leaf it leaves
Advance_KeepsPin(s, it) ==
  LET leaf == NodeAt(s, it.leaf_)
      index == it.index_ + 1
  IN IF index >= GetSize(leaf) /\ leaf.next_page_id # INVALID_PAGE_ID
     THEN LET next == leaf.next_page_id
          IN
          Bind([s2 \in {BpmFetchPage(s, next)} |->
          Bind([s3 \in {AssertThat(s2, s2.frame # {}, "operator++: page != nullptr")} |->
          [s3 EXCEPT !.result = IteratorOf(next, 0, PointerOf(s2))]])])
     ELSE [s EXCEPT !.result = [it EXCEPT !.index_ = index]]

\* operator++
Advance(s, it) ==
  LET leaf == NodeAt(s, it.leaf_)
      index == it.index_ + 1
  IN IF index >= GetSize(leaf) /\ leaf.next_page_id # INVALID_PAGE_ID
     THEN LET next == leaf.next_page_id
          IN
          Bind([s1 \in {BpmUnpinPage(s, it.page_id_, FALSE)} |->
          Bind([s2 \in {BpmFetchPage(s1, next)} |->
          Bind([s3 \in {AssertThat(s2, s2.frame # {}, "operator++: page != nullptr")} |->
          [s3 EXCEPT !.result = IteratorOf(next, 0, PointerOf(s2))]])])])
     ELSE [s EXCEPT !.result = [it EXCEPT !.index_ = index]]

\* operator==: two iterators are equal when they stand on the same page at the
\* same index.
IteratorEquals(a, b) == a.page_id_ = b.page_id_ /\ a.index_ = b.index_

\* BPlusTreeLeafPage::KeyIndex: the first index whose key is not below key.
LeafKeyIndex(node, key) == Len(SelectSeq(node.array, LAMBDA e : e.first < key))

\* begin(): FindLeafPage leaves the leftmost leaf pinned, and the iterator
\* fetches it once more.  On an empty tree FindLeafPage returns nullptr, which
\* is dereferenced.
Begin(s) ==
  Bind([s1 \in {FindLeafPage(s, 0, TRUE)} |->
  IF s1.frame = {} THEN [s1 EXCEPT !.undef = TRUE]
  ELSE IndexIterator(s1, NodeAt(s1, PointerOf(s1)).page_id, 0)])

\* Begin(key)
BeginAt(s, key) ==
  Bind([s1 \in {FindLeafPage(s, key, FALSE)} |->
  IF s1.frame = {} THEN [s1 EXCEPT !.undef = TRUE]
  ELSE LET leaf == NodeAt(s1, PointerOf(s1))
       IN IndexIterator(s1, leaf.page_id, LeafKeyIndex(leaf, key))])

\* end()'s loop: each next leaf is fetched and unpinned at once.
RECURSIVE LastLeafFrom(_, _)
LastLeafFrom(s, f) ==
  LET leaf == NodeAt(s, f)
  IN IF leaf.next_page_id = INVALID_PAGE_ID THEN Returning(s, {f})
     ELSE Bind([s1 \in {BpmFetchPage(s, leaf.next_page_id)} |->
          IF s1.frame = {} THEN [s1 EXCEPT !.undef = TRUE]
          ELSE LastLeafFrom(BpmUnpinPage(s1, s1.pages[PointerOf(s1)].page_id, FALSE), PointerOf(s1))])

\* end(): the iterator stands on the last leaf at index GetSize() - 1.
End(s) ==
  Bind([s1 \in {FindLeafPage(s, 0, TRUE)} |->
  IF s1.frame = {} THEN [s1 EXCEPT !.undef = TRUE]
  ELSE Bind([s2 \in {LastLeafFrom(s1, PointerOf(s1))} |->
       IF s2.undef THEN s2
       ELSE LET leaf == NodeAt(s2, PointerOf(s2))
            IN IndexIterator(s2, leaf.page_id, GetSize(leaf) - 1)])])

\* ------------------------------------------------------- index, whole calls
\* A pool of pool_size frames right after construction, as one value.
FreshPool(pool_size) ==
  [pages |-> [f \in 0 .. (pool_size - 1) |-> EmptyPage], page_table |-> <<>>,
   free_list |-> [i \in 1 .. pool_size |-> i - 1], usedFrames |-> <<>>, disk |-> <<>>,
   next_page_id |-> 0, ok |-> TRUE, frame |-> {}, page_id |-> INVALID_PAGE_ID, io |-> <<>>]

\* The index's pool when the tree is constructed: its owner has allocated the
\* header page (page id 0 = HEADER_PAGE_ID) and released it.
PoolWithHeader(pool_size) == UnpinPageImpl(NewPageImpl(FreshPool(pool_size)), HEADER_PAGE_ID, TRUE)

\* BPlusTree::BPlusTree(name, buffer_pool_manager, comparator, leaf_max_size,
\* internal_max_size): root_page_id_ = INVALID_PAGE_ID.  run is the workload's
\* opening sequence of keys and ops the number of calls that may follow it.
ConstructTree(pool_size, leaf_max_size, internal_max_size, run, ops) ==
  /\ zeroed = ZeroNode
  /\ root_page_id_ = INVALID_PAGE_ID
  /\ leaf_max_size_ = leaf_max_size
  /\ internal_max_size_ = internal_max_size
  /\ stored = <<>>
  /\ iterators = <<>>
  /\ todo = run
  /\ budget = ops
  /\ pool_size_ = pool_size
  /\ pages_ = PoolWithHeader(pool_size).pages
  /\ page_table_ = PoolWithHeader(pool_size).page_table
  /\ free_list_ = PoolWithHeader(pool_size).free_list
  /\ usedFrames = PoolWithHeader(pool_size).usedFrames
  /\ disk = PoolWithHeader(pool_size).disk
  /\ next_page_id = PoolWithHeader(pool_size).next_page_id
  /\ flushed = {}
  /\ fifo = <<>>
  /\ lru_last = [op |-> "LRUReplacer", frame_id |-> 0, ok |-> TRUE, victim |-> {}]
  /\ threads = [t \in 1 .. ThreadCount |-> Idle]
  /\ latch_ = {}
  /\ latch = {}

\* The step that leaves the pool and the tree object as the call result r
\* describes.  A call that read or wrote outside a page's pairs has no
\* completed result and is no step.
BecomesTree(r) ==
  /\ ~r.undef
  /\ pages_' = r.pages
  /\ page_table_' = r.page_table
  /\ free_list_' = r.free_list
  /\ usedFrames' = r.usedFrames
  /\ disk' = r.disk
  /\ next_page_id' = r.next_page_id
  /\ root_page_id_' = r.root_page_id
  /\ UNCHANGED <<pool_size_, zeroed, leaf_max_size_, internal_max_size_, flushed, lruVars,
               threadVars>>

\* Insert(key, value); cost is what the call takes from the budget of calls.
Insert(key, value, cost) ==
  /\ todo = <<>> /\ budget >= cost
  /\ InsertImpl(Tree, key, value).next_page_id <= MaxTreePages
  /\ BecomesTree(InsertImpl(Tree, key, value))
  /\ stored' = IF InsertImpl(Tree, key, value).ok THEN Assign(stored, key, value) ELSE stored
  /\ budget' = budget - cost
  /\ UNCHANGED <<iterators, todo>>

\* The next Insert of the opening sequence.
InsertNext(value) ==
  /\ todo # <<>>
  /\ InsertImpl(Tree, Head(todo), value).next_page_id <= MaxTreePages
  /\ BecomesTree(InsertImpl(Tree, Head(todo), value))
  /\ stored' = IF InsertImpl(Tree, Head(todo), value).ok
                THEN Assign(stored, Head(todo), value) ELSE stored
  /\ todo' = Tail(todo)
  /\ UNCHANGED <<iterators, budget>>

\* Remove(key)
Remove(key, cost) ==
  /\ todo = <<>> /\ budget >= cost
  /\ BecomesTree(RemoveImpl(Tree, key))
  /\ stored' = Erase(stored, key)
  /\ budget' = budget - cost
  /\ UNCHANGED <<iterators, todo>>

\* GetValue(key, &result)
GetValueCall(key, cost) ==
  /\ todo = <<>> /\ budget >= cost
  /\ BecomesTree(GetValue(Tree, key))
  /\ budget' = budget - cost
  /\ UNCHANGED <<stored, iterators, todo>>

\* begin(), Begin(key) or end(), r being the call's result: the iterator
\* returned joins the live ones.
OpenIterator(r, cost) ==
  /\ todo = <<>> /\ budget >= cost /\ Len(iterators) < MaxIterators
  /\ BecomesTree(r)
  /\ iterators' = Append(iterators, r.result)
  /\ budget' = budget - cost
  /\ UNCHANGED <<stored, todo>>

\* ++it on the i-th live iterator, which is not at its end
IteratorNext(i) ==
  /\ ~isEnd(Tree, iterators[i])
  /\ BecomesTree(Advance(Tree, iterators[i]))
  /\ iterators' = [iterators EXCEPT ![i] = Advance(Tree, iterators[i]).result]
  /\ UNCHANGED <<stored, todo, budget>>

\* The i-th live iterator goes out of scope.
IteratorDestroy(i) ==
  /\ BecomesTree(DestroyIterator(Tree, iterators[i]))
  /\ iterators' = SubSeq(iterators, 1, i - 1) \o SubSeq(iterators, i + 1, Len(iterators))
  /\ UNCHANGED <<stored, todo, budget>>

\* ------------------------------------------------------------- index specs
Keys == 1 .. TreeKeys

Values == 1 .. TreeValues

\* The opening sequences of a workload: the keys 1 .. n in ascending order and
\* the keys TreeKeys .. TreeKeys-n+1 in descending order, for every n.
Ascending(n) == [i \in 1 .. n |-> i]

Descending(n) == [i \in 1 .. n |-> TreeKeys + 1 - i]

OpeningRuns == {Ascending(n) : n \in 0 .. TreeKeys} \cup {Descending(n) : n \in 0 .. TreeKeys}

\* <<leaf_max_size, internal_max_size>> of the trees constructed
TreeConfigs == {<<2, 3>>, <<4, 3>>, <<2, 5>>}

\* SpecTree: a tree of one of the configurations takes the Insert calls of an
\* opening sequence and then up to TailOps further Insert, Remove and GetValue
\* calls on any keys.
InitTree ==
  \E c \in TreeConfigs, run \in OpeningRuns : ConstructTree(MaxTreePages, c[1], c[2], run, TailOps)

NextTree ==
  \/ InsertNext(1)
  \/ \E k \in Keys, v \in Values : Insert(k, v, 1)
  \/ \E k \in Keys : Remove(k, 1)
  \/ \E k \in Keys : GetValueCall(k, 1)

SpecTree == InitTree /\ [][NextTree]_vars

\* SpecShrink: a tree with internal_max_size 5 takes the Insert calls of an
\* opening sequence and then up to ShrinkOps Remove calls on any keys.
InitShrink == \E run \in OpeningRuns : ConstructTree(MaxTreePages, 2, 5, run, ShrinkOps)

NextShrink ==
  \/ InsertNext(1)
  \/ \E k \in Keys : Remove(k, 1)

SpecShrink == InitShrink /\ [][NextShrink]_vars

\* SpecRound: a tree takes the Insert calls of an opening sequence of up to
\* RoundKeys keys and then Remove calls, in any order, on keys it still stores.
RoundRuns == {run \in OpeningRuns : Len(run) <= RoundKeys}

InitRound ==
  \E c \in TreeConfigs, run \in RoundRuns : ConstructTree(MaxTreePages, c[1], c[2], run, 0)

NextRound ==
  \/ InsertNext(1)
  \/ \E k \in DOMAIN stored : Remove(k, 0)

SpecRound == InitRound /\ [][NextRound]_vars

\* SpecIter: a tree takes the Insert calls of an opening sequence; then up to
\* IterOps iterators are obtained from begin(), Begin(key) and end(), advanced
\* and destroyed.
InitIter ==
  \E c \in TreeConfigs, run \in OpeningRuns : ConstructTree(MaxTreePages, c[1], c[2], run, IterOps)

NextIter ==
  \/ InsertNext(1)
  \/ OpenIterator(Begin(Tree), 1)
  \/ \E k \in Keys : OpenIterator(BeginAt(Tree, k), 1)
  \/ OpenIterator(End(Tree), 1)
  \/ \E i \in 1 .. Len(iterators) : IteratorNext(i)
  \/ \E i \in 1 .. Len(iterators) : IteratorDestroy(i)

SpecIter == InitIter /\ [][NextIter]_vars

\* ------------------------------------------------------- the tree's shape
\* The node FetchPage(page_id) would hand out: the frame's bytes when the page
\* is resident, else its disk image.
PageImage(page_id) ==
  IF page_id \in DOMAIN page_table_ THEN pages_[page_table_[page_id]].data
  ELSE DiskRead(disk, page_id)

\* The pages met on paths of at most depth child links down from page_id.
RECURSIVE PagesBelow(_, _)
PagesBelow(page_id, depth) ==
  LET node == PageImage(page_id) IN
  IF depth = 0 \/ node.page_type # "INTERNAL_PAGE" THEN {page_id}
  ELSE {page_id} \cup UNION {PagesBelow(node.array[i].second, depth - 1) : i \in 1 .. Len(node.array)}

\* The pages of the tree: those met from the root.
TreePages == IF root_page_id_ = INVALID_PAGE_ID THEN {} ELSE PagesBelow(root_page_id_, MaxTreePages)

TreeLeaves == {p \in TreePages : IsLeafPage(PageImage(p))}

\* The keys held by the leaves below page_id, and by the whole tree.
KeysBelow(page_id, depth) ==
  UNION {{PageImage(p).array[i].first : i \in 1 .. Len(PageImage(p).array)} :
           p \in {q \in PagesBelow(page_id, depth) : IsLeafPage(PageImage(q))}}

PresentKeys == IF root_page_id_ = INVALID_PAGE_ID THEN {} ELSE KeysBelow(root_page_id_, MaxTreePages)

\* The leaf reached from page_id by child 0 links (at most depth of them).
RECURSIVE LeftmostBelow(_, _)
LeftmostBelow(page_id, depth) ==
  LET node == PageImage(page_id) IN
  IF depth = 0 \/ node.page_type # "INTERNAL_PAGE" \/ node.array = <<>> THEN page_id
  ELSE LeftmostBelow(node.array[1].second, depth - 1)

\* The pages met by following next_page_id from page_id, at most n of them.
RECURSIVE ChainFrom(_, _)
ChainFrom(page_id, n) ==
  IF page_id = INVALID_PAGE_ID \/ n = 0 THEN <<>>
  ELSE <<page_id>> \o ChainFrom(PageImage(page_id).next_page_id, n - 1)

\* The leaf chain of a non-empty tree; one page more than there are page ids is
\* followed, so that a chain that does not end shows as a longer one.
LeafChain == ChainFrom(LeftmostBelow(root_page_id_, MaxTreePages), MaxTreePages + 1)

\* The keys along a chain of leaves, in the order met.
RECURSIVE KeysAlong(_)
KeysAlong(chain) ==
  IF chain = <<>> THEN <<>>
  ELSE [i \in 1 .. Len(PageImage(Head(chain)).array) |-> PageImage(Head(chain)).array[i].first]
         \o KeysAlong(Tail(chain))

\* The depths at which leaves are met below page_id, page_id being at depth.
RECURSIVE LeafDepths(_, _)
LeafDepths(page_id, depth) ==
  LET node == PageImage(page_id) IN
  IF depth = MaxTreePages \/ node.page_type # "INTERNAL_PAGE" THEN {depth}
  ELSE UNION {LeafDepths(node.array[i].second, depth + 1) : i \in 1 .. Len(node.array)}

\* ------------------------------------------------------------- iteration
\* The keys of S in ascending order.
RECURSIVE SortedKeys(_)
SortedKeys(S) == IF S = {} THEN <<>> ELSE <<Min(S)>> \o SortedKeys(S \ {Min(S)})

\* The keys a loop dereferences that starts with iterator it and repeats
\* "visit *it; ++it" until the loop condition fails: it == last when to_end,
\* else it.isEnd().  At most n rounds are followed.
RECURSIVE KeysVisited(_, _, _, _, _)
KeysVisited(s, it, to_end, last, n) ==
  IF n = 0 \/ (to_end /\ IteratorEquals(it, last)) \/ (~to_end /\ isEnd(s, it)) THEN <<>>
  ELSE [i \in 1 .. Cardinality(Deref(s, it)) |-> (CHOOSE e \in Deref(s, it) : TRUE).first]
         \o KeysVisited(Advance(s, it), Advance(s, it).result, to_end, last, n - 1)

\* for (it = begin(); it != end(); ++it) and for (it = begin(); !it.isEnd(); ++it)
KeysFromBeginToEnd ==
  KeysVisited(Begin(Tree), Begin(Tree).result, TRUE, End(Tree).result, TreeKeys + MaxTreePages)

KeysFromBeginToIsEnd ==
  KeysVisited(Begin(Tree), Begin(Tree).result, FALSE, End(Tree).result, TreeKeys + MaxTreePages)

\* ================================================================= claims
Resident(p) == p \in DOMAIN page_table_

FrameOf(p) == page_table_[p]

IsFree(f) == f \in Range(free_list_)

IsCandidate(f) == f \in Range(usedFrames)

IsPinned(f) == pages_[f].pin_count > 0

\* Real pages, as opposed to the INVALID_PAGE_ID sentinel.
ResidentPages == {p \in DOMAIN page_table_ : p # INVALID_PAGE_ID}

\* C1 (invariant B1, partition): in every state reachable by FetchPage, NewPage,
\* UnpinPage, FlushPage, DeletePage and FlushAllPages calls, each frame is in
\* exactly one of the free list, the replacer's candidates and the pinned frames
\* (pin_count > 0), and occurs at most once in either list.
C1_Partition ==
  /\ \A f \in Frames :
       Cardinality({k \in {"free", "candidate", "pinned"} :
                      \/ k = "free" /\ IsFree(f)
                      \/ k = "candidate" /\ IsCandidate(f)
                      \/ k = "pinned" /\ IsPinned(f)}) = 1
  /\ Cardinality(Range(free_list_)) = Len(free_list_)
  /\ Cardinality(Range(usedFrames)) = Len(usedFrames)

\* A pool that has evicted (more pages were allocated than it has frames) and
\* deleted (a frame is free again) while a page is pinned twice.
C1_Witness ==
  /\ next_page_id > pool_size_
  /\ \E f, g \in Frames : IsFree(f) /\ pages_[g].pin_count = MaxPin

\* C2 (invariant B2, bijection), as claimed: page_table_ maps p to f iff frame f
\* holds page p and p is not INVALID_PAGE_ID; so INVALID_PAGE_ID is never a key.
\* FetchPage(INVALID_PAGE_ID) installs the sentinel as a key.
C2_Bijection ==
  \A f \in Frames : \A p \in Callable \cup DOMAIN page_table_ :
    (Resident(p) /\ FrameOf(p) = f) <=> (pages_[f].page_id = p /\ p # INVALID_PAGE_ID)

\* C3: a page whose frame is pinned is never evicted or deleted: a step taken while
\* page p has pin_count > 0 leaves p in the page table on the same frame, and the
\* frame still holds p with its bytes and at most one pin fewer.
C3_PinnedStays ==
  [][\A p \in ResidentPages :
       LET f == FrameOf(p) IN
       pages_[f].pin_count > 0 =>
         /\ p \in DOMAIN page_table_'
         /\ page_table_'[p] = f
         /\ pages_'[f].page_id = p
         /\ pages_'[f].data = pages_[f].data
         /\ pages_'[f].pin_count >= pages_[f].pin_count - 1
         /\ f \notin Range(free_list_')]_vars

\* A pinned page in a full pool out of which another page has been evicted.
C3_Witness ==
  /\ free_list_ = <<>>
  /\ \E p \in ResidentPages : pages_[FrameOf(p)].pin_count > 0
  /\ \E q \in Allocated : ~Resident(q)
  /\ \E f \in Frames : IsCandidate(f)

\* Neither a free frame nor a candidate is left.
Exhausted == free_list_ = <<>> /\ usedFrames = <<>>

\* The page ids a caller can pass that are not keys of the page table.
NonResident == Callable \ DOMAIN page_table_

\* C4 (CapacityExhausted): FetchPage of a non-resident page and NewPage return
\* none exactly when the free list is empty and the replacer has no candidate,
\* which is when every frame is pinned; and when exactly one frame f of a full
\* pool is unpinned, the FetchPage that failed before succeeds and reuses f.
C4_CapacityExhausted ==
  /\ Exhausted <=> \A f \in Frames : pages_[f].pin_count > 0
  /\ \A p \in NonResident : (FetchPageImpl(Pool, p).frame = {}) <=> Exhausted
  /\ (NewPageImpl(Pool).frame = {}) <=> Exhausted
  /\ \A f \in Frames : (free_list_ = <<>> /\ usedFrames = <<f>>) =>
       \A p \in NonResident :
         LET r == FetchPageImpl(Pool, p) IN
         /\ r.frame = {f}
         /\ r.page_table[p] = f
         /\ r.pages[f].page_id = p
         /\ pages_[f].page_id # p => pages_[f].page_id \notin DOMAIN r.page_table

\* pool_size = 4, four distinct pages resident and pinned, and the fetch of a
\* fifth page returns none.
C4_Witness ==
  /\ pool_size_ = FillPoolSize
  /\ Exhausted
  /\ Cardinality(ResidentPages) = pool_size_
  /\ \E p \in Allocated : ~Resident(p) /\ FetchPageImpl(Pool, p).frame = {}

\* When the next frame to be reused holds a dirty page q, the first disk call of
\* a NewPage or of a FetchPage miss is WritePage(q, the frame's bytes), and the
\* disk holds those bytes under q afterwards.
C5_WriteBackFirst ==
  (free_list_ = <<>> /\ usedFrames # <<>> /\ pages_[Back(usedFrames)].is_dirty) =>
    LET v == Back(usedFrames)
        q == pages_[v].page_id
        wb == IoCall("WritePage", q, pages_[v].data)
        n == NewPageImpl(Pool)
    IN /\ n.io[1] = wb
       /\ q \in Allocated => n.disk[q] = pages_[v].data
       /\ \A p \in NonResident :
            LET r == FetchPageImpl(Pool, p) IN
            /\ r.io[1] = wb
            /\ q \in Allocated => r.disk[q] = pages_[v].data

\* A page that is not resident after a step has on disk the bytes it had in its
\* frame before the step, or its unchanged disk image if it was not resident.
C5_LeavesLastContents ==
  \A q \in Allocated :
    q \notin DOMAIN page_table_' =>
      disk'[q] = IF Resident(q) THEN pages_[FrameOf(q)].data ELSE disk[q]

\* C5 (invariant B3, write-back before reuse): when FetchPage or NewPage reuses a
\* frame that holds a dirty page q, the first disk call is WritePage(q, the
\* frame's bytes); and a page that leaves the pool leaves its last contents on
\* disk, where they stay while it is not resident.
C5_WriteBackBeforeReuse == []C5_WriteBackFirst /\ [][C5_LeavesLastContents]_vars

\* A full pool whose victim holds a page rewritten since it was read, next to a
\* page that an earlier reuse of a dirty frame has written back.
C5_Witness ==
  /\ free_list_ = <<>> /\ usedFrames # <<>>
  /\ LET v == Back(usedFrames) IN
     /\ pages_[v].is_dirty
     /\ pages_[v].page_id \in Allocated
     /\ pages_[v].data # disk[pages_[v].page_id]
  /\ \E q \in Allocated : ~Resident(q) /\ disk[q] # 0 /\ \A e \in flushed : e[1] # q

\* C6 (P2): once FlushPage(p) has returned true and p has not been rewritten, a
\* FetchPage(p) after any other calls, evictions of p included, returns a frame
\* that holds p with the bytes p had when it was flushed.
C6_FetchAfterFlush ==
  \A e \in flushed :
    LET r == FetchPageImpl(Pool, e[1]) IN
    \A f \in r.frame : r.pages[f].page_id = e[1] /\ r.pages[f].data = e[2]

\* A flushed, rewritten-before-the-flush page that has since left the pool and
\* can be fetched back.
C6_Witness ==
  \E e \in flushed :
    /\ ~Resident(e[1])
    /\ e[2] # 0
    /\ FetchPageImpl(Pool, e[1]).frame # {}

\* The frames that successive Victim calls return until one returns false.
RECURSIVE VictimSequence(_)
VictimSequence(uf) ==
  IF ~ReplacerHasVictim(uf) THEN <<>>
  ELSE <<ReplacerVictim(uf)>> \o VictimSequence(ReplacerAfterVictim(uf))

\* C7 (P3, LRU order): successive Victim calls return the candidates in the order
\* of their latest effective Unpin, oldest first, one call per candidate, and the
\* call after the last candidate returns false.
C7_LRUOrder ==
  /\ VictimSequence(usedFrames) = fifo
  /\ ReplacerSize(usedFrames) = Len(fifo)
  /\ lru_last.op = "Victim" => (lru_last.ok <=> lru_last.victim # {})

\* A Victim call has just returned a frame and left all the other frames candidates.
C7_Witness ==
  /\ lru_last.op = "Victim" /\ lru_last.ok
  /\ Len(fifo) = LruFrames - 1
  /\ \E i \in 1 .. (Len(fifo) - 1) : fifo[i] > fifo[i + 1]

\* C8 (sticky dirty bit): UnpinPage(p, true) on a resident page sets the dirty bit;
\* UnpinPage(p, false) and FetchPage(p) keep a set dirty bit; and while p stays
\* resident the bit is cleared only by a FlushPage(p) or FlushAllPages step.
C8_DirtySticky ==
  [][\A p \in ResidentPages :
       LET f == FrameOf(p) IN
       /\ Becomes(UnpinPageImpl(Pool, p, TRUE)) => pages_'[f].is_dirty
       /\ pages_[f].is_dirty =>
            /\ (Becomes(UnpinPageImpl(Pool, p, FALSE)) \/ Becomes(FetchPageImpl(Pool, p)))
                 => (p \in DOMAIN page_table_' /\ pages_'[page_table_'[p]].is_dirty)
            /\ (p \in DOMAIN page_table_' /\ ~pages_'[page_table_'[p]].is_dirty)
                 => (Becomes(FlushPageImpl(Pool, p))
                       \/ Becomes(FlushAllPagesImpl(Pool, pool_size_)))]_vars

\* A dirty resident page that was fetched again after the unpin that dirtied it.
C8_Witness ==
  \E p \in ResidentPages :
    pages_[FrameOf(p)].is_dirty /\ pages_[FrameOf(p)].pin_count = MaxPin

\* C9 (NotResident): UnpinPage(p, d) and FlushPage(p) with p not in the page table
\* return false, leave the whole pool and the disk as they were, and make no disk
\* call.
C9_NotResident ==
  \A p \in (Callable \cup {next_page_id}) \ DOMAIN page_table_ :
    /\ \A d \in BOOLEAN :
         LET u == UnpinPageImpl(Pool, p, d) IN
         ~u.ok /\ PoolOf(u) = PoolOf(Pool) /\ u.io = <<>>
    /\ LET fl == FlushPageImpl(Pool, p) IN
       ~fl.ok /\ PoolOf(fl) = PoolOf(Pool) /\ fl.io = <<>>

\* An allocated page is not resident while a rewritten, dirty page is.
C9_Witness ==
  /\ \E p \in Allocated : ~Resident(p) /\ ~UnpinPageImpl(Pool, p, TRUE).ok
  /\ \E q \in ResidentPages :
       pages_[FrameOf(q)].is_dirty /\ pages_[FrameOf(q)].data # disk[q]

\* C10 (StillPinned): DeletePage(p) on a resident page with pin_count > 0 returns
\* false, leaves the whole pool and the disk as they were, and calls neither
\* WritePage nor DeallocatePage.
C10_StillPinned ==
  \A p \in ResidentPages :
    pages_[FrameOf(p)].pin_count > 0 =>
      LET r == DeletePageImpl(Pool, p) IN
      ~r.ok /\ PoolOf(r) = PoolOf(Pool) /\ r.io = <<>>

\* A pinned resident page that is dirty and differs from its disk image.
C10_Witness ==
  \E p \in ResidentPages :
    /\ pages_[FrameOf(p)].pin_count > 0
    /\ pages_[FrameOf(p)].is_dirty
    /\ pages_[FrameOf(p)].data # disk[p]
    /\ ~DeletePageImpl(Pool, p).ok

\* C11 (FlushPage effect): FlushPage(p) on a resident page p returns true, issues
\* exactly WritePage(p, the frame's bytes) so that the disk holds those bytes under
\* p, clears the frame's dirty bit, and leaves the frame's page id, bytes and
\* pin_count, every other frame, the page table, the free list and the replacer
\* as they were.
C11_FlushPageEffect ==
  \A p \in ResidentPages :
    LET f == FrameOf(p)
        r == FlushPageImpl(Pool, p)
    IN /\ r.ok
       /\ r.io = <<IoCall("WritePage", p, pages_[f].data)>>
       /\ r.disk = [disk EXCEPT ![p] = pages_[f].data]
       /\ r.pages = [pages_ EXCEPT ![f].is_dirty = FALSE]
       /\ r.page_table = page_table_
       /\ r.free_list = free_list_
       /\ r.usedFrames = usedFrames
       /\ r.next_page_id = next_page_id

\* A flush has just cleaned a pinned page whose rewritten bytes are now on disk.
C11_Witness ==
  \E p \in ResidentPages :
    /\ pages_[FrameOf(p)].pin_count > 0 /\ ~pages_[FrameOf(p)].is_dirty
    /\ pages_[FrameOf(p)].data # 0 /\ disk[p] = pages_[FrameOf(p)].data
    /\ <<p, pages_[FrameOf(p)].data>> \in flushed

\* C12 (GetValue, P4): after any sequence of Insert and Remove calls, GetValue(k)
\* returns true with the value v exactly when the last successful Insert of k
\* stored v and no Remove(k) followed it, and returns false with no value otherwise.
C12_GetValueCorrect ==
  \A k \in Keys :
    LET r == GetValue(Tree, k) IN
    /\ r.ok <=> k \in DOMAIN stored
    /\ r.result = IF k \in DOMAIN stored THEN {stored[k]} ELSE {}

\* The call result r left the tree object and every frame (page id, pin count,
\* dirty flag, bytes) as they are, and matched each of its FetchPage calls with
\* one UnpinPage.
LeavesTreeUnchanged(r) ==
  /\ r.pages = pages_
  /\ r.page_table = page_table_
  /\ r.root_page_id = root_page_id_
  /\ r.next_page_id = next_page_id
  /\ r.extra = {}
  /\ \A p \in DOMAIN r.pins : r.pins[p] = 0

\* C13 (Insert of a duplicate): Insert(k, v) returns false when k is in the tree
\* and true otherwise; when it returns false, all entries, sizes, parent and next
\* pointers and root_page_id_ are as before and the fetched leaf was unpinned
\* with dirty = false (its dirty flag and pin count are as before).
C13_InsertDuplicate ==
  \A k \in Keys, v \in Values :
    LET r == InsertImpl(Tree, k, v) IN
    /\ r.ok <=> k \notin PresentKeys
    /\ ~r.ok => LeavesTreeUnchanged(r)

\* T1 (order): the keys of a node are strictly ascending (an internal node's
\* from slot 1 on), and no key is held by two leaves.
T1_Order ==
  /\ \A p \in TreePages :
       LET node == PageImage(p)
           first == IF IsLeafPage(node) THEN 1 ELSE 2
       IN \A i \in first .. Len(node.array), j \in first .. Len(node.array) :
            i < j => node.array[i].first < node.array[j].first
  /\ \A p \in TreeLeaves, q \in TreeLeaves :
       p # q => KeysBelow(p, 0) \cap KeysBelow(q, 0) = {}

\* T2 (routing): every key below child i of an internal node is at least the
\* key of slot i (for i >= 1) and below the key of slot i + 1 (if there is one).
T2_Routing ==
  \A p \in TreePages :
    LET node == PageImage(p) IN
    node.page_type = "INTERNAL_PAGE" =>
      \A i \in 1 .. Len(node.array) :
        \A key \in KeysBelow(node.array[i].second, MaxTreePages) :
          /\ i > 1 => key >= node.array[i].first
          /\ i < Len(node.array) => key < node.array[i + 1].first

\* C14 (T1 and T2): after every completed Insert or Remove, in any sequence, the
\* keys of each node are strictly ascending and unique over the tree, and every
\* internal node routes each key of its subtrees to the child that holds it,
\* also after an internal node borrowed a child from its right or left sibling.
C14_OrderAndRouting == T1_Order /\ T2_Routing

C16_ParentLinkage ==
  \A p \in TreePages :
    LET parent_id == PageImage(p).parent_page_id IN
    IF p = root_page_id_ THEN parent_id = INVALID_PAGE_ID
    ELSE /\ parent_id \in TreePages
         /\ PageImage(parent_id).page_type = "INTERNAL_PAGE"
         /\ Cardinality({i \in 1 .. Len(PageImage(parent_id).array) :
                           PageImage(parent_id).array[i].second = p}) = 1

\* C17 (T6 and T3): after every completed Insert or Remove on a non-empty tree,
\* the next_page_id chain from the leftmost leaf ends at INVALID, visits each
\* leaf of the tree exactly once and no other page (so no page that a coalesce
\* deleted), meets the keys in ascending order, and all leaves are at one depth.
C17_LeafChain ==
  root_page_id_ # INVALID_PAGE_ID =>
    /\ Len(LeafChain) <= MaxTreePages
    /\ \A i \in 1 .. Len(LeafChain), j \in 1 .. Len(LeafChain) : i # j => LeafChain[i] # LeafChain[j]
    /\ Range(LeafChain) = TreeLeaves
    /\ \A p \in Range(LeafChain) : p \in DOMAIN page_table_
    /\ \A i \in 1 .. Len(KeysAlong(LeafChain)), j \in 1 .. Len(KeysAlong(LeafChain)) :
         i < j => KeysAlong(LeafChain)[i] < KeysAlong(LeafChain)[j]
    /\ Cardinality(LeafDepths(root_page_id_, 0)) = 1

\* C18 (iterator, P6): on a non-empty tree reached by any sequence of Insert and
\* Remove, the loop from Begin() that advances with operator++ until the
\* iterator equals End(), and the loop that advances until isEnd() holds, each
\* dereference every key of the tree exactly once in ascending order, the
\* largest key included.
C18_IteratorVisitsAll ==
  root_page_id_ # INVALID_PAGE_ID =>
    /\ KeysFromBeginToEnd = SortedKeys(PresentKeys)
    /\ KeysFromBeginToIsEnd = SortedKeys(PresentKeys)

\* C19 (round trip, P7): once all keys of a set have been inserted and all of
\* them removed again, in any orders, the tree is empty, root_page_id_ is
\* INVALID and no page the tree allocated is left in the buffer pool.
C19_RoundTrip ==
  (todo = <<>> /\ stored = <<>>) =>
    /\ IsEmpty(Tree)
    /\ root_page_id_ = INVALID_PAGE_ID
    /\ DOMAIN page_table_ = {HEADER_PAGE_ID}

\* The call result r matched each FetchPage/NewPage of a page with exactly one
\* UnpinPage of that page id: none is missing and none is extra.
PinsMatched(r) == r.extra = {} /\ \A p \in DOMAIN r.pins : r.pins[p] = 0

\* C20 (pin discipline, T7): on every path of GetValue, Insert, Remove, and of
\* Begin(), Begin(key) and End() followed by the destruction of the iterator,
\* each FetchPage/NewPage is matched by exactly one UnpinPage of the same page
\* id, and once no iterator is alive every frame has pin_count = 0.
C20_PinDiscipline ==
  /\ \A k \in Keys :
       /\ PinsMatched(GetValue(Tree, k))
       /\ PinsMatched(InsertImpl(Tree, k, 1))
       /\ PinsMatched(RemoveImpl(Tree, k))
       /\ root_page_id_ # INVALID_PAGE_ID =>
            PinsMatched(DestroyIterator(BeginAt(Tree, k), BeginAt(Tree, k).result))
  /\ root_page_id_ # INVALID_PAGE_ID =>
       /\ PinsMatched(DestroyIterator(Begin(Tree), Begin(Tree).result))
       /\ PinsMatched(DestroyIterator(End(Tree), End(Tree).result))
  /\ iterators = <<>> => \A f \in Frames : pages_[f].pin_count = 0

\* The call result r passed is_dirty = true to UnpinPage exactly for the pages
\* whose bytes changed between the matching FetchPage/NewPage and that call.
DirtyFlagsTruthful(r) == \A u \in r.unpins : u.is_dirty <=> u.mutated

\* C21 (dirty flag): on every path of GetValue, Insert and Remove the dirty flag
\* passed to UnpinPage for a page is true if and only if the page's bytes were
\* modified between the matching fetch and that unpin; Remove of a key that is
\* absent from its leaf unpins the leaf clean, and a parent whose separator was
\* changed by a redistribution is unpinned dirty.
C21_DirtyFlagTruthful ==
  \A k \in Keys :
    /\ DirtyFlagsTruthful(GetValue(Tree, k))
    /\ \A v \in Values : DirtyFlagsTruthful(InsertImpl(Tree, k, v))
    /\ DirtyFlagsTruthful(RemoveImpl(Tree, k))
    /\ k \notin PresentKeys => \A u \in RemoveImpl(Tree, k).unpins : ~u.is_dirty

\* The bytes of page page_id as the call result r leaves them: the frame's when
\* the page is resident, else the disk's.
ImageIn(r, page_id) ==
  IF page_id \in DOMAIN r.page_table THEN r.pages[r.page_table[page_id]].data
  ELSE DiskRead(r.disk, page_id)

\* The header page's record for the index names r's root_page_id; before the
\* first tree is created there is no record and no root.
HeaderAgrees(r) ==
  LET header == ImageIn(r, HEADER_PAGE_ID) IN
  IF header.array = <<>> THEN r.root_page_id = INVALID_PAGE_ID
  ELSE header.array[1].second = r.root_page_id

\* C22 (root id in the header page): after every completed Insert or Remove the
\* header page's record for this index equals root_page_id_: it is inserted when
\* a tree is first created and updated on every later change (root split, root
\* collapse, tree emptied, tree created again after having been emptied).
C22_HeaderRecord ==
  /\ HeaderAgrees(Tree)
  /\ \A k \in Keys :
       /\ \A v \in Values : ~InsertImpl(Tree, k, v).undef => HeaderAgrees(InsertImpl(Tree, k, v))
       /\ ~RemoveImpl(Tree, k).undef => HeaderAgrees(RemoveImpl(Tree, k))

\* The call result r left root_page_id_, the bytes of every page of the tree
\* and the set of resident pages as they are.
SameTree(r) ==
  /\ r.root_page_id = root_page_id_
  /\ DOMAIN r.page_table = DOMAIN page_table_
  /\ \A p \in TreePages : ImageIn(r, p) = PageImage(p)

\* C23 (Remove of an absent key): Remove(k) with k absent is a silent no-op in
\* every tree state, the empty tree and a tree whose root is a leaf with fewer
\* than min_size entries included: the stored pairs, the nodes with their
\* sizes, parent and next pointers and root_page_id_ are as before, and no page
\* is deleted.
C23_RemoveAbsent ==
  \A k \in Keys \ (PresentKeys \cup DOMAIN stored) : SameTree(RemoveImpl(Tree, k))

\* The call result r ran with a frame to hand out at every fetch and no
\* assertion of the tree or page code was false on the way.
NoAssertFailed(r) == ~r.oom => r.failed = {}

\* C24 (no assertion fails): in every state reachable by Insert, Remove and
\* GetValue, with a buffer pool that always has a free or evictable frame, no
\* assertion of the tree or internal-page code is false during a call: not the
\* index-bound asserts of SetKeyAt, SetValueAt and KeyAt inside the internal
\* MoveHalfTo and MoveAllTo, not the size asserts of Coalesce, CopyLastFrom and
\* CopyFirstFrom, not AdjustRoot's assert that a leaf root is empty.
C24_NoAssertFails ==
  \A k \in Keys :
    /\ NoAssertFailed(GetValue(Tree, k))
    /\ \A v \in Values : NoAssertFailed(InsertImpl(Tree, k, v))
    /\ NoAssertFailed(RemoveImpl(Tree, k))

\* ------------------------------------------- concurrent callers of the pool
\* SpecThreads: ThreadCount threads call the pool's operations concurrently.  A
\* step is what one thread does between two points where another thread may
\* run: latch_.lock(), the statements between lock() and unlock(), which no
\* other holder of latch_ can interleave with, latch_.unlock(), and every
\* statement a thread executes without holding latch_.  A racing read of one
\* int (page_id_) returns the value before or after the racing write; the
\* interleavings of the steps produce both.
ThreadIds == 1 .. ThreadCount

ThreadPoolSize == 2   \* SpecThreads: pool_size
ThreadMaxPages == 2   \* SpecThreads: page ids 0 .. ThreadMaxPages-1
ThreadMaxPin == 1     \* SpecThreads: pins callers take on one page

PoolOps == {"FetchPage", "UnpinPage", "FlushPage", "NewPage", "DeletePage"}

\* The calls of operation op that threads have entered and not yet executed.
Entered(op, page_id) ==
  Cardinality({u \in ThreadIds : /\ threads[u].op = op
                                 /\ threads[u].pc \in {"lock", "body"}
                                 /\ threads[u].page_id = page_id})

\* Thread t calls one of the pool's operations other than FlushAllPages and
\* arrives at its latch_.lock().
ThreadCall(t, op, page_id, is_dirty) ==
  /\ threads[t].pc = "idle"
  /\ op = "FetchPage" =>
       (IF page_id \in DOMAIN page_table_ THEN pages_[page_table_[page_id]].pin_count ELSE 0)
         + Entered("FetchPage", page_id) < ThreadMaxPin
  /\ op = "NewPage" =>
       /\ page_id = INVALID_PAGE_ID
       /\ next_page_id + Entered("NewPage", INVALID_PAGE_ID) < ThreadMaxPages
  /\ op # "UnpinPage" => ~is_dirty
  /\ threads' = [threads EXCEPT ![t] = [Idle EXCEPT !.op = op, !.pc = "lock",
                                                    !.page_id = page_id,
                                                    !.is_dirty = is_dirty]]
  /\ UNCHANGED <<poolVars, flushed, lruVars, zeroed, treeVars, latch_, latch>>

\* Thread t calls FlushAllPagesImpl and arrives at its loop with fid = 0.
ThreadCallFlushAll(t) ==
  /\ threads[t].pc = "idle"
  /\ threads' = [threads EXCEPT ![t] = [Idle EXCEPT !.op = "FlushAllPages", !.pc = "loop"]]
  /\ UNCHANGED <<poolVars, flushed, lruVars, zeroed, treeVars, latch_, latch>>

\* FlushAllPagesImpl's loop: for fid < pool_size_ the thread evaluates the
\* argument pages_[fid].GetPageId(), holding no latch, and enters FlushPageImpl;
\* at fid = pool_size_ the call returns.
ThreadFlushAllLoop(t) ==
  /\ threads[t].pc = "loop"
  /\ threads' = [threads EXCEPT ![t] =
                   IF threads[t].fid < pool_size_
                   THEN [@ EXCEPT !.pc = "lock", !.page_id = pages_[threads[t].fid].page_id,
                                  !.accessed = TRUE]
                   ELSE Idle]
  /\ UNCHANGED <<poolVars, flushed, lruVars, zeroed, treeVars, latch_, latch>>

\* latch_.lock()
ThreadLock(t) ==
  /\ threads[t].pc = "lock"
  /\ latch_ = {}
  /\ latch_' = {t}
  /\ threads' = [threads EXCEPT ![t].pc = "body", ![t].accessed = FALSE]
  /\ UNCHANGED <<poolVars, flushed, lruVars, zeroed, treeVars, latch>>

\* The statements of the operation between latch_.lock() and latch_.unlock().
BodyOf(s, call) ==
  CASE call.op = "FetchPage" -> FetchPageImpl(s, call.page_id)
    [] call.op = "UnpinPage" -> UnpinPageImpl(s, call.page_id, call.is_dirty)
    [] call.op = "NewPage" -> NewPageImpl(s)
    [] call.op = "DeletePage" -> DeletePageImpl(s, call.page_id)
    [] OTHER -> FlushPageImpl(s, call.page_id)

ThreadBody(t) ==
  /\ threads[t].pc = "body"
  /\ pages_' = BodyOf(Pool, threads[t]).pages
  /\ page_table_' = BodyOf(Pool, threads[t]).page_table
  /\ free_list_' = BodyOf(Pool, threads[t]).free_list
  /\ usedFrames' = BodyOf(Pool, threads[t]).usedFrames
  /\ disk' = BodyOf(Pool, threads[t]).disk
  /\ next_page_id' = BodyOf(Pool, threads[t]).next_page_id
  /\ threads' = [threads EXCEPT ![t].pc = "unlock", ![t].accessed = TRUE]
  /\ UNCHANGED <<pool_size_, flushed, lruVars, zeroed, treeVars, latch_, latch>>

\* latch_.unlock() and the return; inside FlushAllPagesImpl the return of
\* FlushPageImpl leads to the loop's fid++.
ThreadUnlock(t) ==
  /\ threads[t].pc = "unlock"
  /\ latch_' = {}
  /\ threads' = [threads EXCEPT ![t] =
                   IF threads[t].op = "FlushAllPages"
                   THEN [@ EXCEPT !.pc = "loop", !.fid = @ + 1, !.accessed = FALSE]
                   ELSE Idle]
  /\ UNCHANGED <<poolVars, flushed, lruVars, zeroed, treeVars, latch>>

InitThreads == Construct(ThreadPoolSize)

NextThreads ==
  \/ \E t \in ThreadIds, op \in PoolOps, p \in Callable, d \in BOOLEAN : ThreadCall(t, op, p, d)
  \/ \E t \in ThreadIds : ThreadCallFlushAll(t)
  \/ \E t \in ThreadIds : ThreadFlushAllLoop(t)
  \/ \E t \in ThreadIds : ThreadLock(t)
  \/ \E t \in ThreadIds : ThreadBody(t)
  \/ \E t \in ThreadIds : ThreadUnlock(t)

SpecThreads == InitThreads /\ [][NextThreads]_vars

\* Thread t is inside a call, at or after the call's first access to the pool's
\* members and before its return.
InsideCall(t) == threads[t].accessed \/ threads[t].pc \in {"body", "unlock"} \/ threads[t].fid > 0

\* C25 (pool operations under one mutex): each of FetchPage, UnpinPage,
\* FlushPage, NewPage, DeletePage and FlushAllPages executes entirely while its
\* thread holds the pool-wide mutex latch_, so concurrent calls are equivalent
\* to some sequential order of them, and no operation reads frame metadata
\* without holding the mutex.
C25_PoolMutex == \A t \in ThreadIds : InsideCall(t) => latch_ = {t}

\* --------------------------------------- concurrent callers of the replacer
\* SpecLRUThreads: ThreadCount threads call the replacer's operations
\* concurrently; the steps are cut as in SpecThreads, with the replacer's own
\* mutex latch.
ReplacerOps == {"Victim", "Pin", "Unpin"}

\* Thread t calls Victim, Pin or Unpin and arrives at its latch.lock().
LRUThreadCall(t, op, frame_id) ==
  /\ threads[t].pc = "idle"
  /\ op = "Victim" => frame_id = 0
  /\ threads' = [threads EXCEPT ![t] = [Idle EXCEPT !.op = op, !.pc = "lock",
                                                    !.frame_id = frame_id]]
  /\ UNCHANGED <<poolVars, flushed, lruVars, zeroed, treeVars, latch_, latch>>

\* latch.lock()
LRUThreadLock(t) ==
  /\ threads[t].pc = "lock"
  /\ latch = {}
  /\ latch' = {t}
  /\ threads' = [threads EXCEPT ![t].pc = "body"]
  /\ UNCHANGED <<poolVars, flushed, lruVars, zeroed, treeVars, latch_>>

\* The statements of Victim, Pin or Unpin between latch.lock() and
\* latch.unlock().
LRUThreadBody(t) ==
  /\ threads[t].pc = "body"
  /\ usedFrames' =
       CASE threads[t].op = "Pin" -> ReplacerPin(usedFrames, threads[t].frame_id)
         [] threads[t].op = "Unpin" -> ReplacerUnpin(usedFrames, threads[t].frame_id)
         [] OTHER -> IF ReplacerHasVictim(usedFrames) THEN ReplacerAfterVictim(usedFrames)
                     ELSE usedFrames
  /\ threads' = [threads EXCEPT ![t].pc = "unlock", ![t].accessed = TRUE]
  /\ UNCHANGED <<pool_size_, pages_, page_table_, free_list_, disk, next_page_id, flushed,
                 lruVars, zeroed, treeVars, latch_, latch>>

\* latch.unlock() and the return
LRUThreadUnlock(t) ==
  /\ threads[t].pc = "unlock"
  /\ latch' = {}
  /\ threads' = [threads EXCEPT ![t] = Idle]
  /\ UNCHANGED <<poolVars, flushed, lruVars, zeroed, treeVars, latch_>>

\* Size(): return usedFrames.size(), the whole body; the thread reads the list
\* and stands at its return.
LRUThreadSize(t) ==
  /\ threads[t].pc = "idle"
  /\ threads' = [threads EXCEPT ![t] = [Idle EXCEPT !.op = "Size", !.pc = "return",
                                                    !.accessed = TRUE]]
  /\ UNCHANGED <<poolVars, flushed, lruVars, zeroed, treeVars, latch_, latch>>

\* Size() returns to its caller.
LRUThreadReturn(t) ==
  /\ threads[t].pc = "return"
  /\ threads' = [threads EXCEPT ![t] = Idle]
  /\ UNCHANGED <<poolVars, flushed, lruVars, zeroed, treeVars, latch_, latch>>

InitLRUThreads == Construct(LruFrames)

NextLRUThreads ==
  \/ \E t \in ThreadIds, op \in ReplacerOps, f \in Frames : LRUThreadCall(t, op, f)
  \/ \E t \in ThreadIds : LRUThreadLock(t)
  \/ \E t \in ThreadIds : LRUThreadBody(t)
  \/ \E t \in ThreadIds : LRUThreadUnlock(t)
  \/ \E t \in ThreadIds : LRUThreadSize(t)
  \/ \E t \in ThreadIds : LRUThreadReturn(t)

SpecLRUThreads == InitLRUThreads /\ [][NextLRUThreads]_vars

\* C26 (replacer operations under one mutex): Victim, Pin, Unpin and Size are
\* atomic with respect to each other: each holds the replacer's mutex from its
\* first access to the candidate list to its return, on every return path, so
\* Size never reads the list while another thread is inside an operation that
\* modifies it.
C26_ReplacerMutex ==
  \A t \in ThreadIds :
    /\ InsideCall(t) => latch = {t}
    /\ threads[t].op = "Size" /\ threads[t].accessed =>
         \A u \in ThreadIds \ {t} : threads[u].pc \notin {"body", "unlock"}

\* C27 (Unpin of a candidate): Replacer.Unpin(f) on a frame f that is already a
\* candidate changes nothing: the candidate sequence has the same elements in
\* the same order after the call as before it.
C27_UnpinCandidate ==
  [][lru_last'.op = "Unpin" /\ lru_last'.frame_id \in Range(usedFrames)
       => usedFrames' = usedFrames]_vars

\* The last call was an Unpin of a frame that was a candidate already: the
\* frame is a candidate behind another one, and an Unpin that adds a frame puts
\* it in front of all others.
C27_Witness ==
  /\ lru_last.op = "Unpin"
  /\ Len(usedFrames) >= 2
  /\ lru_last.frame_id \in Range(usedFrames)
  /\ usedFrames[1] # lru_last.frame_id

\* The call result r took the back element of the free list and left the
\* replacer's candidates and every resident page where they were.
TakesFreeFrame(r) ==
  /\ r.frame = {Back(free_list_)}
  /\ r.free_list = PopBack(free_list_)
  /\ r.usedFrames = usedFrames
  /\ \A q \in DOMAIN page_table_ : q \in DOMAIN r.page_table /\ r.page_table[q] = page_table_[q]

\* The call result r took the frame Replacer.Victim returns.
TakesVictim(r) ==
  /\ r.frame = {ReplacerVictim(usedFrames)}
  /\ r.usedFrames = ReplacerAfterVictim(usedFrames)
  /\ r.free_list = <<>>

LookupIndex(node, key) ==
  LET greater == {i \in 1 .. (GetSize(node) - 1) : node.array[i + 1].first > key} IN
  IF greater = {} THEN GetSize(node) - 1 ELSE Min(greater) - 1

\* The pages from page_id down to a leaf, choosing in each internal page the
\* child that the rule names for key (child 0 when leftMost).
RECURSIVE PathFrom(_, _, _, _)
PathFrom(page_id, key, leftMost, depth) ==
  LET node == PageImage(page_id) IN
  IF depth = 0 \/ IsLeafPage(node) \/ node.array = <<>> THEN <<page_id>>
  ELSE <<page_id>> \o
       PathFrom(node.array[(IF leftMost THEN 0 ELSE LookupIndex(node, key)) + 1].second,
                key, leftMost, depth - 1)

\* The result r of FindLeafPage(key, leftMost) on a tree that is not empty is
\* the leaf at the end of the path, pinned once; the internal pages of the path
\* were unpinned with is_dirty = false and nothing else was pinned or unpinned.
FindsLeaf(r, key, leftMost) ==
  LET path == PathFrom(root_page_id_, key, leftMost, MaxTreePages)
      leaf == Back(path)
      above == {path[i] : i \in 1 .. (Len(path) - 1)}
  IN /\ r.frame # {}
     /\ r.pages[PointerOf(r)].page_id = leaf
     /\ IsLeafPage(NodeAt(r, PointerOf(r)))
     /\ DOMAIN r.pins = above \cup {leaf}
     /\ \A p \in DOMAIN r.pins : r.pins[p] = IF p = leaf THEN 1 ELSE 0
     /\ r.extra = {}
     /\ r.unpins = {[page_id |-> p, is_dirty |-> FALSE, mutated |-> FALSE] : p \in above}
     /\ \A p \in above : r.pages[r.page_table[p]].pin_count = 0
     /\ \A f \in Frames : r.pages[f].is_dirty = pages_[f].is_dirty
     /\ r.pages[PointerOf(r)].pin_count = 1

\* C29 (Lookup and FindLeafPage): Lookup(key) on an internal node of size >= 1
\* returns the child at index i - 1 for the smallest i in 1 .. size-1 whose key
\* is strictly greater than key, and the last child when there is none; the
\* key of slot 0 is never compared.  FindLeafPage returns none on an empty
\* tree, and otherwise the leaf reached by Lookup (child 0 when leftMost) from
\* the root, with every internal page of the path unpinned clean and only the
\* returned leaf left pinned.
C29_LookupAndFindLeaf ==
  /\ \A p \in TreePages, k \in 0 .. (TreeKeys + 1) :
       LET node == PageImage(p) IN
       ~IsLeafPage(node) /\ GetSize(node) >= 1 =>
         /\ InternalLookup(node, k) = node.array[LookupIndex(node, k) + 1].second
         /\ \A d \in 0 .. (TreeKeys + 1) :
              InternalLookup([node EXCEPT !.array[1].first = d], k) = InternalLookup(node, k)
  /\ \A k \in Keys, leftMost \in BOOLEAN :
       IF root_page_id_ = INVALID_PAGE_ID
       THEN /\ FindLeafPage(Tree, k, leftMost).frame = {}
            /\ FindLeafPage(Tree, k, leftMost) = Tree
       ELSE ~FindLeafPage(Tree, k, leftMost).undef => FindsLeaf(FindLeafPage(Tree, k, leftMost), k, leftMost)

\* A tree of three levels and a key equal to a separator of the root that is
\* neither its first nor its last: FindLeafPage has unpinned two internal pages
\* and returns the leaf two levels below the root's middle child.
C29_Witness ==
  /\ root_page_id_ # INVALID_PAGE_ID
  /\ \E k \in Keys :
       /\ Len(PathFrom(root_page_id_, k, FALSE, MaxTreePages)) >= 3
       /\ LookupIndex(PageImage(root_page_id_), k) \in 1 .. (GetSize(PageImage(root_page_id_)) - 2)
       /\ \E i \in 2 .. GetSize(PageImage(root_page_id_)) : PageImage(root_page_id_).array[i].first = k
       /\ Cardinality(FindLeafPage(Tree, k, FALSE).unpins) = 2
       /\ FindLeafPage(Tree, k, FALSE).frame # {}

\* ---------------------------------------------------------------- SpecSplit
\* SpecSplit: trees whose internal pages split an odd and an even number of
\* entries (internal_max_size 4 and 3) take the Insert calls of an opening
\* sequence and then up to TailOps Insert and Remove calls on any keys.
SplitConfigs == {<<2, 4>>, <<2, 3>>}

InitSplit ==
  \E c \in SplitConfigs, run \in OpeningRuns : ConstructTree(MaxTreePages, c[1], c[2], run, TailOps)

NextSplit ==
  \/ InsertNext(1)
  \/ \E k \in Keys, v \in Values : Insert(k, v, 1)
  \/ \E k \in Keys : Remove(k, 1)

SpecSplit == InitSplit /\ [][NextSplit]_vars

\* The sequence without its j-th element.
RemoveAt(seq, j) == SubSeq(seq, 1, j - 1) \o SubSeq(seq, j + 1, Len(seq))

\* The call that ends in r split the internal page p: p has fewer entries than
\* before the call.
WasSplit(r, p) == ~IsLeafPage(PageImage(p)) /\ GetSize(ImageIn(r, p)) < GetSize(PageImage(p))

\* The split of p as C30 states it, read off the tree before the call and the
\* result r: g is the fresh node, total the max_size + 1 entries that p held
\* when it was split (its entries before the call and the one inserted).
SplitAsStated(r, p, g) ==
  LET before == PageImage(p).array
      total == PageImage(p).max_size + 1
      low == ImageIn(r, p).array
      new == ImageIn(r, g)
      parent == ImageIn(r, new.parent_page_id)
  IN /\ Len(before) + 1 = total
     /\ new.page_type = "INTERNAL_PAGE" /\ new.page_id = g
     /\ Len(low) = total \div 2
     /\ Len(new.array) = (total + 1) \div 2
     /\ \E j \in 2 .. total : RemoveAt(low \o new.array, j) = before
     /\ \A i \in 1 .. Len(new.array) : ImageIn(r, new.array[i].second).parent_page_id = g
     /\ \E i \in 1 .. Len(parent.array) : parent.array[i] = MappingType(new.array[1].first, g)

Gone(r) == {p \in TreePages : p \notin DOMAIN r.page_table}

\* The pairs of an internal page without those of the children in pages, and
\* the pairs of a leaf without the pair of key.
WithoutChildren(array, pages) == SelectSeq(array, LAMBDA pair : pair.second \notin pages)

WithoutKey(array, key) == SelectSeq(array, LAMBDA pair : pair.first # key)

\* The pairs with key as the key of the first one.
WithFirstKey(array, key) ==
  IF array = <<>> THEN <<>> ELSE <<MappingType(key, array[1].second)>> \o Tail(array)

\* The slot (counted from 1) of page p in the child array of page parent_id
\* before the call, 0 when it has none.
SlotOf(parent_id, p) ==
  LET slots == {i \in 1 .. Len(PageImage(parent_id).array) : PageImage(parent_id).array[i].second = p}
  IN IF slots = {} THEN 0 ELSE Min(slots)

\* The coalesce that deleted the non-root page right, as C31 states it, read off
\* the tree before Remove(key) and the call's result r: right was merged into
\* the sibling on its left, which holds the entries of both in order; the
\* parent lost the entry of right; a parent left below min_size was handled in
\* its turn.
CoalescedAsStated(r, key, right) ==
  LET parent_id == PageImage(right).parent_page_id
      slot == SlotOf(parent_id, right)
      left == PageImage(parent_id).array[slot - 1].second
      rest == WithoutChildren(PageImage(parent_id).array, {right})
  IN /\ parent_id \in TreePages
     /\ slot >= 2
     /\ left \in DOMAIN r.page_table
     /\ ImageIn(r, left).array =
          IF IsLeafPage(PageImage(right))
          THEN WithoutKey(PageImage(left).array \o PageImage(right).array, key)
          ELSE WithoutChildren(PageImage(left).array, Gone(r))
                 \o WithFirstKey(WithoutChildren(PageImage(right).array, Gone(r)),
                                 PageImage(parent_id).array[slot].first)
     /\ parent_id \notin Gone(r) =>
          /\ right \notin {ImageIn(r, parent_id).array[i].second : i \in 1 .. Len(ImageIn(r, parent_id).array)}
          /\ IF parent_id = root_page_id_
             THEN Len(rest) >= 2 /\ ImageIn(r, parent_id).array = rest
             ELSE IF Len(rest) >= GetMinSize(PageImage(parent_id))
             THEN ImageIn(r, parent_id).array = rest
             ELSE Len(ImageIn(r, parent_id).array) > Len(rest)
     /\ parent_id \in Gone(r) =>
          \/ parent_id = root_page_id_ /\ Len(rest) = 1 /\ r.root_page_id = left
          \/ parent_id # root_page_id_ /\ Len(rest) < GetMinSize(PageImage(parent_id))

\* The leaf that a coalesce at the leaf level deletes in Remove(key): the leaf
\* of key, or its right sibling when the leaf of key is child 0.
MergedLeaf(key) ==
  LET leaf == Back(PathFrom(root_page_id_, key, FALSE, MaxTreePages))
      parent_id == PageImage(leaf).parent_page_id
  IN IF SlotOf(parent_id, leaf) = 1 THEN PageImage(parent_id).array[2].second ELSE leaf

ChildSeq(array) == [i \in 1 .. Len(array) |-> array[i].second]

ChildSet(array) == {array[i].second : i \in 1 .. Len(array)}

\* The internal pages that gave a child to a sibling in the call ending in r:
\* pages that stay in the tree, lost a child, and had no child deleted.
Donors(r) ==
  {p \in TreePages \ (Gone(r) \cup {root_page_id_}) :
     /\ ~IsLeafPage(PageImage(p))
     /\ ChildSet(PageImage(p).array) \cap Gone(r) = {}
     /\ ChildSet(PageImage(p).array) \ ChildSet(ImageIn(r, p).array) # {}}

\* The redistribution out of the internal page donor as C32 states it, read off
\* the tree before the call and the result r.  fromEnd: the donor is the left
\* sibling and its last child moved to the recipient's front; otherwise the
\* donor is the right sibling of child 0 and its first child moved to the
\* recipient's end.
RedistributedAsStated(r, donor) ==
  LET before == PageImage(donor).array
      parent_id == PageImage(donor).parent_page_id
      parent == PageImage(parent_id).array
      slot == SlotOf(parent_id, donor)
      lost == ChildSet(before) \ ChildSet(ImageIn(r, donor).array)
      moved == CHOOSE c \in lost : TRUE
      fromEnd == before[Len(before)].second = moved
      recipient == parent[IF fromEnd THEN slot + 1 ELSE slot - 1].second
      sepSlot == IF fromEnd THEN slot + 1 ELSE slot
      kept == WithoutChildren(PageImage(recipient).array, Gone(r))
      after == ImageIn(r, recipient).array
  IN /\ Cardinality(lost) = 1
     /\ fromEnd \/ (before[1].second = moved /\ slot = 2)
     /\ ChildSeq(ImageIn(r, donor).array) = ChildSeq(WithoutChildren(before, {moved}))
     /\ ChildSeq(after) = IF fromEnd THEN <<moved>> \o ChildSeq(kept)
                          ELSE ChildSeq(kept) \o <<moved>>
     /\ IF fromEnd THEN after[2].first = parent[sepSlot].first
        ELSE after[Len(after)].first = parent[sepSlot].first
     /\ ImageIn(r, parent_id).array[sepSlot].first =
          IF fromEnd THEN before[Len(before)].first ELSE before[2].first
     /\ ChildSeq(ImageIn(r, parent_id).array) = ChildSeq(parent)
     /\ ImageIn(r, moved).parent_page_id = recipient

\* C32 (redistribution between internal siblings): exactly one child rotates
\* through the parent: the parent's separator between the two siblings becomes
\* the key attached to the moved child in the recipient, the donor's boundary
\* key replaces that separator in the parent, the recipient keeps all its
\* previous children in their order, the donor loses exactly the moved child,
\* and the moved child's parent_page_id is the recipient's page id; both when
\* the donor is the left sibling (last entry to the recipient's front) and when
\* it is the right sibling of a child-0 node (first entry to the recipient's
\* end).
C32_InternalRedistribute ==
  \A k \in PresentKeys :
    ~RemoveImpl(Tree, k).undef =>
      \A donor \in Donors(RemoveImpl(Tree, k)) :
        RedistributedAsStated(RemoveImpl(Tree, k), donor)

\* What Remove(key) leaves in the root page before AdjustRoot sees it: a leaf
\* root without key, an internal root without the children merged away.
RootLeft(r, key) ==
  IF IsLeafPage(PageImage(root_page_id_)) THEN WithoutKey(PageImage(root_page_id_).array, key)
  ELSE WithoutChildren(PageImage(root_page_id_).array, Gone(r))

\* The effect of AdjustRoot as C33 states it, read off the tree before
\* Remove(key) and its result r.
AdjustedAsStated(r, key) ==
  LET root == PageImage(root_page_id_)
      left == RootLeft(r, key)
  IN IF IsLeafPage(root) /\ left = <<>>
     THEN root_page_id_ \in Gone(r) /\ r.root_page_id = INVALID_PAGE_ID
     ELSE IF ~IsLeafPage(root) /\ Len(left) = 1
     THEN /\ root_page_id_ \in Gone(r)
          /\ r.root_page_id = left[1].second
          /\ ImageIn(r, left[1].second).parent_page_id = INVALID_PAGE_ID
          /\ left[1].second \in DOMAIN r.page_table
     ELSE root_page_id_ \notin Gone(r) /\ r.root_page_id = root_page_id_

\* C33 (AdjustRoot): the tree's root changes only when (A) the old root is a
\* leaf of size 0, which is deleted and root_page_id_ becomes INVALID, or (B)
\* the old root is internal with exactly one child, which becomes the root with
\* parent_page_id INVALID while the old root page is deleted; in every other
\* case, a leaf root that still holds entries included, no root page is deleted
\* and root_page_id_ stays.
C33_AdjustRoot ==
  root_page_id_ # INVALID_PAGE_ID =>
    \A k \in Keys : ~RemoveImpl(Tree, k).undef => AdjustedAsStated(RemoveImpl(Tree, k), k)

\* pin_count of page_id in the pool of r (0 for a page that is not resident).
PinCountIn(r, page_id) ==
  IF page_id \in DOMAIN r.page_table THEN r.pages[r.page_table[page_id]].pin_count ELSE 0

\* The pin counts of r are those of the present state, but for the differences
\* delta (page id -> change).
PinsDiffer(r, delta) ==
  /\ \A p \in DOMAIN page_table_ \cup DOMAIN r.page_table :
       PinCountIn(r, p) = PinCountIn(Tree, p) + (IF p \in DOMAIN delta THEN delta[p] ELSE 0)
  /\ \A f \in Frames :
       (\A p \in DOMAIN page_table_ : page_table_[p] # f) /\
       (\A p \in DOMAIN r.page_table : r.page_table[p] # f) =>
         r.pages[f].pin_count = pages_[f].pin_count

\* operator++ on it leaves its leaf: the incremented index is at or beyond the
\* leaf's size and the leaf has a next leaf.
AtEndOfLeaf(it) ==
  /\ it.index_ + 1 >= GetSize(PageImage(it.page_id_))
  /\ PageImage(it.page_id_).next_page_id # INVALID_PAGE_ID

\* C34 (iterator pin): from construction to destruction an iterator holds
\* exactly one pin, on the leaf named by its page_id_: the constructor pins that
\* leaf once; operator++ at the end of a leaf that has a next leaf unpins the
\* current leaf once and fetches the next leaf once, and changes no pin count
\* elsewhere; the destructor releases the one pin; and isEnd() is true exactly
\* when index_ >= the size of the current leaf and its next_page_id is INVALID.
C34_IteratorPin ==
  \A i \in 1 .. Len(iterators) :
       LET it == iterators[i]
           next == PageImage(it.page_id_).next_page_id
       IN /\ \A p \in {it.page_id_, next} \ {INVALID_PAGE_ID} :
               /\ PinsDiffer(IndexIterator(Tree, p, it.index_), p :> 1)
               /\ IndexIterator(Tree, p, it.index_).result =
                    IteratorOf(p, it.index_, page_table_[p])
          /\ it.page_id_ \in DOMAIN page_table_
          /\ it.leaf_ = page_table_[it.page_id_]
          /\ IsLeafPage(PageImage(it.page_id_))
          /\ PinCountIn(Tree, it.page_id_) >=
               Cardinality({j \in 1 .. Len(iterators) : iterators[j].page_id_ = it.page_id_})
          /\ IF AtEndOfLeaf(it)
             THEN /\ PinsDiffer(Advance(Tree, it), (it.page_id_ :> -1) @@ (next :> 1))
                  /\ Advance(Tree, it).result.page_id_ = next
                  /\ Advance(Tree, it).result.index_ = 0
                  /\ Advance(Tree, it).result.leaf_ = Advance(Tree, it).page_table[next]
             ELSE /\ PinsDiffer(Advance(Tree, it), <<>>)
                  /\ Advance(Tree, it).result = [it EXCEPT !.index_ = it.index_ + 1]
          /\ PinsDiffer(DestroyIterator(Tree, it), it.page_id_ :> -1)
          /\ isEnd(Tree, it) <=>
               /\ it.index_ >= Len(PageImage(it.page_id_).array)
               /\ next = INVALID_PAGE_ID

\* operator++ has brought an iterator to the first pair of a leaf other than
\* the first, which holds that iterator's pin only (begin and Begin(key) leave
\* a second pin, end() stands on the last leaf), and the next operator++ takes
\* it on to the next leaf.
C34_Witness ==
  \E i \in 1 .. Len(iterators) :
    /\ AtEndOfLeaf(iterators[i])
    /\ iterators[i].index_ = 0
    /\ PinCountIn(Tree, iterators[i].page_id_) = 1
    /\ \E p \in TreeLeaves : PageImage(p).next_page_id = iterators[i].page_id_

\* The frames that hold a page of the page table with pin_count = 0.
UnpinnedResident ==
  {f \in Frames : pages_[f].pin_count = 0 /\ \E p \in DOMAIN page_table_ : page_table_[p] = f}

\* The replacer has been called by the pool only (no direct Victim, Pin or
\* Unpin call is on record).
DrivenByPool == lru_last.op = "LRUReplacer"

\* C35 (replacer size): in every state reachable by Victim, Pin and Unpin calls
\* the replacer's candidate sequence holds no frame id twice, and when a
\* BufferPool of pool_size frames drives it, Size() never exceeds pool_size and
\* equals the number of resident frames with pin_count = 0.
C35_ReplacerSize ==
  /\ \A i, j \in 1 .. Len(usedFrames) : usedFrames[i] = usedFrames[j] => i = j
  /\ DrivenByPool =>
       /\ ReplacerSize(usedFrames) <= pool_size_
       /\ ReplacerSize(usedFrames) = Cardinality(UnpinnedResident)

\* C36 (failed FetchPage or NewPage): a FetchPage or NewPage call that returns
\* none leaves the whole pool unchanged (page table, free list, replacer order,
\* every frame's page id, bytes, pin_count and dirty bit), issues no disk read
\* or write, and a failed NewPage does not call AllocatePage, so it consumes no
\* page id.
C36_FailedCallNoEffect ==
  /\ \A p \in Callable :
       FetchPageImpl(Pool, p).frame = {} =>
         /\ PoolOf(FetchPageImpl(Pool, p)) = PoolOf(Pool)
         /\ FetchPageImpl(Pool, p).io = <<>>
  /\ NewPageImpl(Pool).frame = {} =>
       /\ PoolOf(NewPageImpl(Pool)) = PoolOf(Pool)
       /\ NewPageImpl(Pool).io = <<>>
       /\ NewPageImpl(Pool).next_page_id = next_page_id
       /\ NewPageImpl(Pool).page_id = INVALID_PAGE_ID

\* Every frame is pinned, one of them dirty, and both NewPage and the FetchPage
\* of an allocated page that is not resident return none.
C36_Witness ==
  /\ NewPageImpl(Pool).frame = {}
  /\ \E p \in Allocated : p \notin DOMAIN page_table_ /\ FetchPageImpl(Pool, p).frame = {}
  /\ \E f \in Frames : pages_[f].is_dirty

\* C37 (reads through page pointers): whenever the tree reads or writes a field
\* of a page through a pointer obtained from the buffer pool, the page is still
\* resident in the same frame and pinned by the tree; no page id is read from a
\* frame after its page was unpinned to 0 or deleted, neither by Remove's final
\* UnpinPage(delTar->GetPageId(), true) nor by CoalesceOrRedistribute's
\* UnpinPage(parentPage->GetPageId(), true).
C37_PinnedWhenRead ==
  \A k \in Keys : ~RemoveImpl(Tree, k).undef => RemoveImpl(Tree, k).stale = {}
====
